---- MODULE Spec2Model ----
(***************************************************************************)
(* Verification model of LuckyOnes: the Double Ratchet engine of           *)
(* crypto_utils.py, the thread / image lifetime bookkeeping of             *)
(* chat_manager.py, and the relay server of network_utils.py (a server     *)
(* that is running, one worker per accepted connection).                   *)
(*                                                                         *)
(* Byte strings and keys are symbolic terms.  A key is a sequence of       *)
(* naturals whose first element tags how it was produced.  os.urandom      *)
(* returns a value no other key or nonce in existence is equal to: the     *)
(* n-th draw of the process of engine e is the term <<0, e, n>>.           *)
(***************************************************************************)
EXTENDS Integers, Sequences, FiniteSets, TLC

\* ---------------------------------------------------------------- bounds
\* Calls made on the ratchet engines in one behaviour.
MaxCalls == 4

\* Two CryptoManager objects, A and B, each in its own process.
Engines == {1, 2}

\* Two distinct message contents.
Plaintexts == {1, 2}

\* ------------------------------------------------- values and conversions
\* X25519PrivateKey.generate(): engine e holds private key e.
\* get_public_key(): the raw public bytes of engine e.
get_public_key(e) == <<"bytes", e>>

PubKeys == {get_public_key(e) : e \in Engines}

\* bytes.hex() and bytes.fromhex(): a hex string is not a bytes object.
Hex(b) == <<"hex", b[2]>>

FromHex(h) == <<"bytes", h[2]>>

\* str.encode('utf-8') and bytes.decode('utf-8')
Utf8Encode(s) == <<"bytes", s[2]>>

Utf8Decode(b) == <<"str", b[2]>>

Texts == {<<"str", p>> : p \in Plaintexts}

\* os.urandom(n): the n-th draw of the process of engine e.
Rnd(e, n) == <<0, e, n>>

NoKey == <<>>

\* perform_dh: X25519 agreement of private key e with the public key pk.
\* The shared secret is the same whichever side computes it.
perform_dh(e, pk) ==
    IF e <= pk[2] THEN <<1, e, pk[2]>> ELSE <<1, pk[2], e>>

\* kdf_root_key: HKDF(info = luckyones_root) over root_key + shared_secret.
kdf_root_key(root_key, shared_secret) == <<2>> \o root_key \o shared_secret

\* kdf_chain_key: HKDF(info = luckyones_ratchet), 64 bytes, split in two:
\* element 1 is output[:32], element 2 is output[32:].
kdf_chain_key(chain_key, shared_secret) ==
    << <<3>> \o chain_key \o shared_secret, <<4>> \o chain_key \o shared_secret >>

\* AESGCM(key).encrypt(nonce, message, None)
AESGCM_encrypt(key, nonce, message) ==
    [key |-> key, nonce |-> nonce, pt |-> message]

\* AESGCM(key).decrypt(nonce, ciphertext, None): the tag verifies only
\* under the key and the nonce of the encryption.
AESGCM_valid(key, nonce, ciphertext) ==
    ciphertext.key = key /\ ciphertext.nonce = nonce

\* json.dumps(message_data): a bytes value is not JSON serializable.
JsonSerializable(message_data) ==
    /\ message_data.public_key[1] # "bytes"
    /\ message_data.nonce[1] # "bytes"
    /\ message_data.ciphertext[1] # "bytes"

\* The dict encrypt_message builds when nothing has been built.
NoData ==
    [public_key |-> <<"none", 0>>, message_number |-> 0,
     nonce |-> <<"none", NoKey>>,
     ciphertext |-> <<"none", AESGCM_encrypt(NoKey, NoKey, <<"bytes", 0>>)>>]

\* ---------------------------------------------------------- DoubleRatchet
\* DoubleRatchet.__init__ of engine e: its own key pair and os.urandom(32)
\* as root key, the first draw of its process.
DoubleRatchet_init(e) ==
    [root_key |-> Rnd(e, 1),
     chain_keys |-> [pk \in PubKeys |-> NoKey],
     message_numbers |-> [pk \in PubKeys |-> 0],
     skip_message_keys |-> [pk \in PubKeys |-> {}]]

HasSession(st, pk) == st.chain_keys[pk] # NoKey

\* The first-contact branch shared by encrypt_message and decrypt_message.
FirstContact(e, st, pk) ==
    LET shared_secret == perform_dh(e, pk)
        root_key == kdf_root_key(st.root_key, shared_secret)
        out == kdf_chain_key(root_key, shared_secret)
    IN [st |-> [st EXCEPT !.root_key = root_key,
                          !.chain_keys[pk] = out[1],
                          !.message_numbers[pk] = 0,
                          !.skip_message_keys[pk] = {}],
        message_key |-> out[2]]

\* DoubleRatchet.encrypt_message of engine e in state st; rnd1 and rnd2 are
\* the values of the two os.urandom calls (message key, nonce).
encrypt_message(e, st, message, other_public_key, rnd1, rnd2) ==
    LET first == ~HasSession(st, other_public_key)
        fc == FirstContact(e, st, other_public_key)
        st1 == IF first THEN fc.st ELSE st
        message_key == IF first THEN fc.message_key ELSE rnd1
        nonce == rnd2
        ciphertext == AESGCM_encrypt(message_key, nonce, message)
        st2 == [st1 EXCEPT !.message_numbers[other_public_key] = @ + 1]
        message_data ==
            [public_key |-> get_public_key(e),
             message_number |-> st2.message_numbers[other_public_key],
             nonce |-> Hex(<<"bytes", nonce>>),
             ciphertext |-> Hex(<<"bytes", ciphertext>>)]
    IN [st |-> st2,
        first |-> first,
        message_key |-> message_key,
        message_data |-> message_data,
        raised |-> IF JsonSerializable(message_data) THEN "" ELSE "TypeError",
        ret |-> IF JsonSerializable(message_data) THEN message_data ELSE NoData]

\* decrypt_message whose existing-chain branch derives the message key from
\* the root key again instead of drawing it.
decrypt_message_rederive(e, st, wellformed, encrypted_data, rnd) ==
    IF ~wellformed
    THEN [st |-> st, raised |-> "ValueError", ret |-> <<"bytes", 0>>]
    ELSE
    LET other_public_key == FromHex(encrypted_data.public_key)
        nonce == FromHex(encrypted_data.nonce)[2]
        ciphertext == FromHex(encrypted_data.ciphertext)[2]
        first == ~HasSession(st, other_public_key)
        fc == FirstContact(e, st, other_public_key)
        st1 == IF first THEN fc.st ELSE st
        message_key ==
            IF first THEN fc.message_key
            ELSE kdf_chain_key(st.root_key, perform_dh(e, other_public_key))[2]
    IN IF AESGCM_valid(message_key, nonce, ciphertext)
       THEN [st |-> st1, raised |-> "", ret |-> ciphertext.pt]
       ELSE [st |-> st1, raised |-> "ValueError", ret |-> <<"bytes", 0>>]

\* DoubleRatchet.decrypt_message of engine e in state st.  wellformed is
\* whether json.loads and the field reads succeed; rnd is the value of the
\* os.urandom call of the existing-chain branch.
decrypt_message(e, st, wellformed, encrypted_data, rnd) ==
    IF ~wellformed
    THEN [st |-> st, raised |-> "ValueError", ret |-> <<"bytes", 0>>]
    ELSE
    LET other_public_key == FromHex(encrypted_data.public_key)
        nonce == FromHex(encrypted_data.nonce)[2]
        ciphertext == FromHex(encrypted_data.ciphertext)[2]
        first == ~HasSession(st, other_public_key)
        fc == FirstContact(e, st, other_public_key)
        st1 == IF first THEN fc.st ELSE st
        message_key == IF first THEN fc.message_key ELSE rnd
    IN IF AESGCM_valid(message_key, nonce, ciphertext)
       THEN [st |-> st1, raised |-> "", ret |-> ciphertext.pt]
       ELSE [st |-> st1, raised |-> "ValueError", ret |-> <<"bytes", 0>>]

\* CryptoManager.encrypt_message / decrypt_message: the utf-8 layer.
CryptoManager_encrypt_message(e, st, message, recipient_public_key, rnd1, rnd2) ==
    encrypt_message(e, st, Utf8Encode(message), recipient_public_key, rnd1, rnd2)

CryptoManager_decrypt_message(e, st, wellformed, encrypted_data, rnd) ==
    LET r == decrypt_message(e, st, wellformed, encrypted_data, rnd)
    IN [st |-> r.st, raised |-> r.raised,
        ret |-> IF r.raised = "" THEN Utf8Decode(r.ret) ELSE <<"str", 0>>]

\* ------------------------------------------------------------- the state
VARIABLES
    ratchet,      \* engine -> the DoubleRatchet object of its CryptoManager
    rndCtr,       \* engine -> number of os.urandom draws it has made
    calls,        \* number of calls made so far
    built,        \* history: the message_data dicts built by encrypt_message
    delivered,    \* history: receiver -> sender key -> numbers of the
                  \*          sender's messages already passed to decrypt
    decrypted,    \* history: receiver -> inputs decrypt_message returned
                  \*          plaintext for
    lastCall      \* the last call made and its outcome

ratchetVars == <<ratchet, rndCtr, calls, built, delivered, decrypted, lastCall>>

VARIABLES
    now,                \* the wall clock
    threads,            \* ChatManager.threads
    current_thread_id,  \* ChatManager.current_thread_id
    running,            \* ChatManager.running
    sweeper,            \* the worker running ChatManager._cleanup_loop
    images,             \* ImageManager.images
    files,              \* the files of ImageManager.temp_dir: path -> bytes
    image_running,      \* ImageManager.running
    image_sweeper,      \* the worker running ImageManager._cleanup_loop
    removed,            \* history: the thread ids _delete_thread removed
    stored,             \* history: image id -> what store_image recorded
    lastGet,            \* the last get_image call and its outcome
    thr,                \* a ChatThread object a caller constructed
    lastCreate,         \* the last create_thread call and its outcome
    lastDelete          \* the last round of the sweeper's deletion loop

VARIABLES
    lastAdd,            \* the last add_message or add_image_message call
                        \* and its outcome
    caller,             \* a caller thread inside set_current_thread or
                        \* add_message: where it is, and the id it holds
    lastRace,           \* the last add_message call such a caller finished
    stopper,            \* the thread inside ChatManager.stop(): where it is,
                        \* the keys _cleanup_all_images has yet to visit and
                        \* the image id it holds inside _delete_image
    deleting            \* the image id the image cleanup worker holds inside
                        \* _delete_image, after the test of line 181

raceVars == <<caller, lastRace>>

stopVars == <<stopper, deleting>>

VARIABLES
    events,             \* per registered handler: the number of calls it got
                        \* for each kind of event
    happened            \* history: the number of threads created, threads
                        \* removed and images removed

obsVars == <<events, happened>>

auxVars == <<lastAdd, raceVars, stopVars>>

VARIABLES
    peers,              \* per client program: whether it connected, whether
                        \* its NetworkClient is connected, and the threads and
                        \* current_thread_id of its ChatManager
    uplink,             \* per client: what it wrote to its socket and the
                        \* server has not read yet
    downlink,           \* per client: what the server sent to it and its
                        \* _receive_loop has not read yet
    ui                  \* history: the chat window operations made, the
                        \* thread ids the server announced, and the relayed
                        \* messages add_message returned None for

peerVars == <<peers, uplink, downlink, ui>>

chatVars == <<now, threads, current_thread_id, running, sweeper, images, files,
              image_running, image_sweeper, removed, stored, lastGet, thr,
              lastCreate, lastDelete, auxVars, obsVars, peerVars>>

VARIABLES
    clients,            \* NetworkServer.clients: socket -> client_info
    server_threads,     \* NetworkServer.threads
    handler,            \* per connection: the worker running _handle_client
    bcast,              \* per connection: the `for other_socket in
                        \* self.clients.keys()` loop its worker is in
    last,               \* the read with data the last step made, if it made
                        \* one, and what came of it
    joins,              \* per registered connection: the data of the last
                        \* JOIN _handle_join bound
    relayed,            \* the broadcast loop the last step ended, if any
    exit,               \* the worker that left _handle_client in the last
                        \* step, if one did, and why
    reads,              \* the number of reads that returned data so far
    inbox,              \* history, per sender: the contents of the MESSAGE
                        \* envelopes read from it while joined, in order
    outbox              \* history, per sender and recipient: the contents of
                        \* the MESSAGE envelopes sent on, in order

relayVars == <<inbox, outbox>>

netVars == <<clients, server_threads, handler, bcast, last, joins, relayed,
             exit, reads, relayVars>>

vars == <<ratchetVars, chatVars, netVars>>

NoCall ==
    [op |-> "none", engine |-> 0, peer |-> <<"bytes", 0>>, text |-> <<"str", 0>>,
     first |-> FALSE, raised |-> "", ret |-> NoData, plain |-> <<"str", 0>>,
     data |-> NoData, legit |-> FALSE, replay |-> FALSE, prior |-> {}]

RatchetInit ==
    /\ ratchet = [e \in Engines |-> DoubleRatchet_init(e)]
    /\ rndCtr = [e \in Engines |-> 1]
    /\ calls = 0
    /\ built = {}
    /\ delivered = [e \in Engines |-> [pk \in PubKeys |-> {}]]
    /\ decrypted = [e \in Engines |-> {}]
    /\ lastCall = NoCall

\* What a peer transmits for a dict encrypt_message built: the same fields
\* with the public key as the hex string decrypt_message parses.
ToWire(message_data) ==
    [message_data EXCEPT !.public_key = Hex(message_data.public_key)]

\* The messages of sender pk built for receiver e, in wire form.
SentTo(e, pk) ==
    {ToWire(b.md) : b \in {x \in built : x.to = get_public_key(e)
                                          /\ x.md.public_key = pk}}

\* Inputs that carry a ciphertext under the key engine e derives on first
\* contact with the sender named in the input.
Crafted(e) ==
    {[public_key |-> Hex(pk), message_number |-> 1,
      nonce |-> Hex(<<"bytes", Rnd(0, 0)>>),
      ciphertext |-> Hex(<<"bytes",
          AESGCM_encrypt(FirstContact(e, ratchet[e], pk).message_key,
                         Rnd(0, 0), <<"bytes", p>>)>>)] :
        pk \in PubKeys, p \in Plaintexts}

DecryptInputs(e) ==
    UNION {SentTo(e, pk) : pk \in PubKeys} \cup Crafted(e) \cup decrypted[e]

\* CryptoManager.encrypt_message(message, recipient_public_key) on engine e.
Encrypt(e, message, pk) ==
    LET first == ~HasSession(ratchet[e], pk)
        draws == IF first THEN 1 ELSE 2
        r == CryptoManager_encrypt_message(e, ratchet[e], message, pk,
                 Rnd(e, rndCtr[e] + 1), Rnd(e, rndCtr[e] + draws))
    IN /\ calls < MaxCalls
       /\ calls' = calls + 1
       /\ ratchet' = [ratchet EXCEPT ![e] = r.st]
       /\ rndCtr' = [rndCtr EXCEPT ![e] = @ + draws]
       /\ built' = built \cup {[to |-> pk, md |-> r.message_data]}
       /\ lastCall' = [NoCall EXCEPT !.op = "encrypt", !.engine = e,
                          !.peer = pk, !.text = message, !.first = r.first,
                          !.raised = r.raised, !.ret = r.ret]
       /\ UNCHANGED <<delivered, decrypted>>
       /\ UNCHANGED chatVars
       /\ UNCHANGED netVars
       /\ UNCHANGED auxVars
       /\ UNCHANGED obsVars
       /\ UNCHANGED peerVars

\* CryptoManager.decrypt_message(encrypted_data) on engine e.
Decrypt(e, data) ==
    LET pk == FromHex(data.public_key)
        first == ~HasSession(ratchet[e], pk)
        draws == IF first THEN 0 ELSE 1
        legit == data \in SentTo(e, pk)
        r == CryptoManager_decrypt_message(e, ratchet[e], TRUE, data,
                 Rnd(e, rndCtr[e] + 1))
    IN /\ calls < MaxCalls
       /\ calls' = calls + 1
       /\ ratchet' = [ratchet EXCEPT ![e] = r.st]
       /\ rndCtr' = [rndCtr EXCEPT ![e] = @ + draws]
       /\ delivered' = IF legit
                       THEN [delivered EXCEPT ![e][pk] = @ \cup {data.message_number}]
                       ELSE delivered
       /\ decrypted' = IF r.raised = ""
                       THEN [decrypted EXCEPT ![e] = @ \cup {data}]
                       ELSE decrypted
       /\ lastCall' = [NoCall EXCEPT !.op = "decrypt", !.engine = e,
                          !.peer = pk, !.first = first, !.raised = r.raised,
                          !.plain = r.ret, !.data = data, !.legit = legit,
                          !.replay = (data \in decrypted[e]),
                          !.prior = delivered[e][pk]]
       /\ UNCHANGED built
       /\ UNCHANGED chatVars
       /\ UNCHANGED netVars
       /\ UNCHANGED auxVars
       /\ UNCHANGED obsVars
       /\ UNCHANGED peerVars

\* decrypt_message on bytes that are not the JSON of a message.
DecryptMalformed(e) ==
    LET r == CryptoManager_decrypt_message(e, ratchet[e], FALSE, NoData,
                 Rnd(e, rndCtr[e] + 1))
    IN /\ calls < MaxCalls
       /\ calls' = calls + 1
       /\ ratchet' = [ratchet EXCEPT ![e] = r.st]
       /\ lastCall' = [NoCall EXCEPT !.op = "malformed", !.engine = e,
                          !.raised = r.raised, !.plain = r.ret]
       /\ UNCHANGED <<rndCtr, built, delivered, decrypted>>
       /\ UNCHANGED chatVars
       /\ UNCHANGED netVars
       /\ UNCHANGED auxVars
       /\ UNCHANGED obsVars
       /\ UNCHANGED peerVars

RatchetNext ==
    \/ \E e \in Engines, m \in Texts, pk \in PubKeys : Encrypt(e, m, pk)
    \/ \E e \in Engines : \E data \in DecryptInputs(e) : Decrypt(e, data)
    \/ \E e \in Engines : DecryptMalformed(e)


\* ===================================================== chat_manager.py
\* The clock counts ticks of ImageExpiryMinutes minutes; datetime.now() and
\* time.time() read it.
ImageExpiryMinutes == 30
DefaultExpiresHours == 12

\* Clock readings of one behaviour, and the last reading at which a thread
\* or an image is created.
MaxTime == 26
MaxCreateTime == 1
LateCreateTime == 25

\* Messages of one thread.
MaxMessages == 2
MaxAdds == 3
MaxEvents == 2

timedelta_minutes(m) == m \div ImageExpiryMinutes

timedelta_hours(h) == (h * 60) \div ImageExpiryMinutes

\* Python's None and a value that is not None.
None == <<>>

Some(v) == <<v>>

MAIN == <<"main">>

Names == {1}
Users == {1}
ImageData == {1, 2}

\* hashlib.sha256(f"{name}{creator_id}{time.time()}").hexdigest()[:16]
ThreadId(name, creator_id, t) == <<name, creator_id, t>>

\* hashlib.sha256(f"{image_data}{sender_id}{time.time()}").hexdigest()[:16]
ImageId(image_data, sender_id, t) == <<image_data, sender_id, t>>

\* ChatThread.__init__ without the test for the main thread.
ChatThread_main_expires(thread_id, name, is_private, creator_id, expires_hours, t) ==
    [thread_id |-> thread_id,
     name |-> name,
     is_private |-> is_private,
     creator_id |-> creator_id,
     created_at |-> t,
     expires_at |-> IF expires_hours > 0
                    THEN Some(t + timedelta_hours(expires_hours))
                    ELSE None,
     messages |-> <<>>,
     participants |-> {}]

\* ChatThread.__init__ with expires_hours >= 0 as the test.
ChatThread_zero_ttl(thread_id, name, is_private, creator_id, expires_hours, t) ==
    [thread_id |-> thread_id,
     name |-> name,
     is_private |-> is_private,
     creator_id |-> creator_id,
     created_at |-> t,
     expires_at |-> IF thread_id # MAIN /\ expires_hours >= 0
                    THEN Some(t + timedelta_hours(expires_hours))
                    ELSE None,
     messages |-> <<>>,
     participants |-> {}]

\* ChatThread.__init__ at clock reading t
ChatThread(thread_id, name, is_private, creator_id, expires_hours, t) ==
    [thread_id |-> thread_id,
     name |-> name,
     is_private |-> is_private,
     creator_id |-> creator_id,
     created_at |-> t,
     expires_at |-> IF thread_id # MAIN /\ expires_hours > 0
                    THEN Some(t + timedelta_hours(expires_hours))
                    ELSE None,
     messages |-> <<>>,
     participants |-> {}]

\* ChatThread.is_expired with >= as the comparison.
is_expired_at_deadline(thread, t) ==
    IF thread.expires_at = None THEN FALSE ELSE t >= thread.expires_at[1]

\* ChatThread.is_expired at clock reading t
is_expired(thread, t) ==
    IF thread.expires_at = None THEN FALSE ELSE t > thread.expires_at[1]

\* ChatThread.add_message putting the message at the front of the list.
ChatThread_add_message_front(thread, message) ==
    [thread EXCEPT !.messages = <<message>> \o @,
                   !.participants = @ \cup {message.sender_id}]

\* ChatThread.add_message
ChatThread_add_message(thread, message) ==
    [thread EXCEPT !.messages = Append(@, message),
                   !.participants = @ \cup {message.sender_id}]

\* ChatMessage.__init__
ChatMessage(content, sender_id, sender_username, thread_id, timestamp, message_type) ==
    [content |-> content, sender_id |-> sender_id,
     sender_username |-> sender_username, thread_id |-> thread_id,
     timestamp |-> timestamp, message_type |-> message_type]

\* The scan of _cleanup_loop without the is_expired test.
ExpiredThreads_all(registry, t) ==
    DOMAIN registry

\* The scan of ChatManager._cleanup_loop: the ids it collects.
ExpiredThreads(registry, t) ==
    {id \in DOMAIN registry : is_expired(registry[id], t)}

\* The scan of ImageManager._cleanup_loop: the ids it collects.
ExpiredImages(registry, t) ==
    {id \in DOMAIN registry : t > registry[id].expires_at}

\* A function without the key k (del d[k]).
Without(f, k) == [x \in (DOMAIN f) \ {k} |-> f[x]]

\* A function with the key k set to v (d[k] = v).
With(f, k, v) == [x \in (DOMAIN f) \cup {k} |-> IF x = k THEN v ELSE f[x]]

NoWorker == [pc |-> "none", expired |-> {}, changed |-> FALSE]

NoGet == [called |-> FALSE, image_id |-> <<0, 0, 0>>, ret |-> None,
          known |-> FALSE, held |-> FALSE, data |-> None, early |-> FALSE,
          past |-> FALSE]

\* No round of the deletion loop of the sweeper has run yet.
NoDelete == [called |-> FALSE, thread_id |-> MAIN, present |-> FALSE,
             was_current |-> FALSE, at |-> 0]

NoCreate == [called |-> FALSE, ret |-> MAIN, repeat |-> FALSE, prior |-> MAIN,
             name |-> 0, creator_id |-> 0, at |-> 0, before |-> {MAIN}]

NoThread == [hours |-> 0, obj |-> ChatThread(MAIN, 0, FALSE, 0, 0, 0), made |-> FALSE]

\* ---------------------------------------------------------------- network
\* The sockets the server accepts, one per connection, numbered in the
\* order of their registration (the order self.clients keeps its keys in).
Conns == {1, 2, 3}

\* The reads with data the workers make in one run.
MaxReads == 4

\* The identities clients put into JOIN.
Identities == {1}

\* MessageProtocol: the message types
JOIN == "JOIN"
LEAVE == "LEAVE"
MESSAGE == "MESSAGE"
IMAGE == "IMAGE"
CREATE_THREAD == "CREATE_THREAD"
DELETE_THREAD == "DELETE_THREAD"
USER_LIST == "USER_LIST"
THREAD_LIST == "THREAD_LIST"
ERROR == "ERROR"
SUCCESS == "SUCCESS"

MessageTypes == {JOIN, LEAVE, MESSAGE, IMAGE, CREATE_THREAD, DELETE_THREAD,
                 USER_LIST, THREAD_LIST, ERROR, SUCCESS}

\* A JSON value is <<"obj", fields>> for an object (a Python dict after
\* json.loads) and <<"list">> for a value that is not an object.
Obj(fields) == <<"obj", fields>>

IsDict(v) == v[1] = "obj"

NotAnObject == <<"list">>

\* dict.get(key, default) on the fields of an object
Get(fields, key, default) == IF key \in DOMAIN fields THEN fields[key] ELSE default

\* message.get('type') as the string the dispatch compares; "None" is the
\* None of an object without the key.
TypeOf(message) == Get(message[2], "type", "None")

\* The bytes json.dumps(v).encode('utf-8') gives, and bytes that are not the
\* UTF-8 encoding of a JSON text.
JsonBytes(v) == <<"json", v>>

JunkBytes == <<"junk">>

\* What one recv returns when the stream joins two writes: the bytes of v1
\* followed by the bytes of v2.
Coalesced(v1, v2) == <<"coalesced", v1, v2>>

\* What one recv returns when the stream splits a write: the first part
\* (part = 1) or the rest (part = 2) of the bytes of v.
Fragment(v, part) == <<"fragment", v, part>>

\* MessageProtocol.create_message (the timestamp field is left out)
create_message(msg_type, data, user_id) ==
    JsonBytes(Obj(IF user_id # None
                  THEN [type |-> msg_type, data |-> data, user_id |-> user_id]
                  ELSE [type |-> msg_type, data |-> data]))

\* MessageProtocol.parse_message: json.loads of the decoded bytes, and the
\* ERROR envelope when either step raises.
parse_message(data) ==
    IF data[1] = "json" THEN data[2]
    ELSE Obj([type |-> ERROR, data |-> Obj([error |-> "Invalid message format"])])

\* The data of a JOIN of identity u.
JoinData(u) ==
    Obj([user_id |-> <<"uid", u>>, username |-> <<"name", u>>,
         public_key |-> <<"hex", u>>])

\* What a client can write to its socket in one piece.
Envelopes ==
    {Obj([type |-> JOIN, data |-> JoinData(u)]) : u \in Identities}
    \cup {Obj([type |-> JOIN, data |-> Obj([username |-> <<"name", 2>>])]),
          Obj([type |-> LEAVE, data |-> Obj([user_id |-> <<"uid", 1>>])]),
          Obj([type |-> MESSAGE,
               data |-> Obj([content |-> 1, thread_id |-> MAIN])]),
          Obj([type |-> IMAGE,
               data |-> Obj([image_data |-> 1, thread_id |-> MAIN])]),
          Obj([type |-> CREATE_THREAD,
               data |-> Obj([thread_name |-> 1, is_private |-> FALSE,
                             creator_id |-> 1])]),
          Obj([type |-> "PING", data |-> Obj([content |-> 1])]),
          Obj([data |-> Obj([content |-> 1])]),
          Obj([type |-> MESSAGE]),
          Obj([type |-> JOIN, data |-> NotAnObject]),
          NotAnObject}

\* The envelope whose bytes the stream splits or joins to another write.
TextEnvelope ==
    Obj([type |-> MESSAGE, data |-> Obj([content |-> 1, thread_id |-> MAIN])])

\* What recv can return other than b''.
RawInputs ==
    {JsonBytes(v) : v \in Envelopes}
    \cup {JunkBytes,
          Coalesced(TextEnvelope, Obj([type |-> IMAGE,
                                       data |-> Obj([image_data |-> 1,
                                                     thread_id |-> MAIN])])),
          Fragment(TextEnvelope, 1),
          Fragment(TextEnvelope, 2)}

\* NetworkServer._handle_client: the client_info of a new connection
NewClientInfo == [user_id |-> None, username |-> None, public_key |-> None]

\* _disconnect_client without `del self.clients[client_socket]`.
disconnect_client_keeps_entry(cl, client_socket) == cl

\* NetworkServer._disconnect_client: the registry after it
disconnect_client(cl, client_socket) ==
    IF client_socket \in DOMAIN cl THEN Without(cl, client_socket) ELSE cl

\* The handlers without the test of client_info and its user_id.
HasJoined_unchecked(cl, client_socket) == TRUE

\* The test `not client_info or not client_info.get('user_id')` negated.
HasJoined(cl, client_socket) ==
    /\ client_socket \in DOMAIN cl
    /\ cl[client_socket].user_id # None

\* _handle_join binding the fields of the first JOIN only.
handle_join_once(client_info, data) ==
    IF client_info # NewClientInfo THEN client_info
    ELSE [user_id |-> Get(data[2], "user_id", None),
          username |-> Get(data[2], "username", None),
          public_key |-> Get(data[2], "public_key", None)]

\* NetworkServer._handle_join: the client_info it leaves
handle_join(client_info, data) ==
    [user_id |-> Get(data[2], "user_id", None),
     username |-> Get(data[2], "username", None),
     public_key |-> Get(data[2], "public_key", None)]

\* The loops without `if other_socket != client_socket`.
SkipsSender_never(msg_type) == FALSE

\* The `if other_socket != client_socket` of the loops of _handle_message and
\* _handle_image, which the loop of _handle_create_thread does not have.
SkipsSender(msg_type) == msg_type \in {MESSAGE, IMAGE}

\* other_socket.send(response) without the try/except around it.
AfterSend_unguarded(ok) == IF ok THEN "next" ELSE "raise"

\* The try/except around other_socket.send(response): a send that raises is
\* passed over and the loop goes on.
AfterSend(ok) == "next"

NoLoop == [type |-> "None", response |-> JunkBytes, size |-> 0, keys |-> {},
           gone |-> {}, visited |-> {}, sent |-> <<>>]

NoRelay == [conn |-> 0, loop |-> NoLoop, registry |-> {}]

NoHandler == [pc |-> "none", open |-> FALSE]

NoExit == [conn |-> 0, why |-> "none"]

NoRead == [conn |-> 0, raw |-> JunkBytes, parsed |-> NotAnObject,
           type |-> "None", joined |-> FALSE, threads_kept |-> TRUE,
           raised |-> "", bound |-> FALSE, rejoined |-> FALSE,
           completes |-> FALSE]

\* joins without what it holds for the connections that left the registry.
OfRegistered(j, cl) ==
    [k \in Conns |-> IF k \in DOMAIN cl THEN j[k] ELSE NotAnObject]

\* NetworkServer.__init__ and start(): the main thread of the server
NetInit ==
    /\ clients = [c \in {} |-> NewClientInfo]
    /\ server_threads = [id \in {MAIN} |->
                           [name |-> 0, is_private |-> FALSE, created_at |-> 0,
                            expires_at |-> None, creator_id |-> 0]]
    /\ handler = [c \in Conns |-> NoHandler]
    /\ bcast = [c \in Conns |-> NoLoop]
    /\ last = NoRead
    /\ joins = [c \in Conns |-> NotAnObject]
    /\ relayed = NoRelay
    /\ exit = NoExit
    /\ reads = 0
    /\ inbox = [c \in Conns |-> <<>>]
    /\ outbox = [c \in Conns |-> [k \in Conns |-> <<>>]]

\* No add_message or add_image_message call has been made yet.
NoAdd == [n |-> 0, op |-> "none", target |-> MAIN, ret |-> None,
          notified |-> FALSE, missing |-> FALSE]

\* A caller thread that is in no call.
Idle == [pc |-> "idle", thread_id |-> MAIN]

\* No add_message call of a caller thread has finished yet.
NoRace == [n |-> 0, raised |-> "", ret |-> None, notified |-> FALSE,
           appended |-> FALSE]

\* The handlers registered with register_thread_handler; the first one
\* raises whenever it is called.
ThreadHandlers == {1, 2}

NoEvents == [thread_created |-> 0, thread_deleted |-> 0, image_deleted |-> 0]

\* `for handler in self.thread_handlers: try: handler(kind, thread) except:
\* pass`, times over: every handler is called, whether or not it raises.
notify_handlers(ev, kind, times) ==
    [h \in DOMAIN ev |-> [ev[h] EXCEPT ![kind] = @ + times]]

\* crypto_manager.get_user_id() and get_username() of the client program
\* on connection k.
UserId(k) == <<"uid", k>>

Username(k) == <<"name", k>>

\* The empty string a client handler takes for a missing id, 'Unknown' for
\* a missing sender name, and the empty text and the empty thread name.
EmptyString == <<"">>

Unknown == <<"Unknown">>

EmptyContent == <<"TEXT", 0>>

EmptyName == 0

\* LuckyOnesClient.__init__: a ChatManager with the main thread, and no
\* NetworkClient yet.
NewPeer ==
    [shown |-> FALSE, connected |-> FALSE,
     threads |-> [id \in {MAIN} |->
                    ChatThread(MAIN, 0, FALSE, 0, DefaultExpiresHours, 0)],
     current_thread_id |-> MAIN]

NoUi == [ops |-> 0,
         created |-> [k \in Conns |-> 0],
         sent |-> [k \in Conns |-> 0],
         announced |-> {},
         dropped |-> [k \in Conns |-> 0],
         timeouts |-> 0]

PeerInit ==
    /\ peers = [k \in Conns |-> NewPeer]
    /\ uplink = [k \in Conns |-> <<>>]
    /\ downlink = [k \in Conns |-> <<>>]
    /\ ui = NoUi

\* No thread is inside ChatManager.stop().
NoStop == [pc |-> "none", keys |-> {}, cur |-> None, left |-> {}]

AuxInit ==
    /\ PeerInit
    /\ stopper = NoStop
    /\ deleting = None
    /\ events = [h \in ThreadHandlers |-> NoEvents]
    /\ happened = NoEvents
    /\ lastAdd = NoAdd
    /\ caller = Idle
    /\ lastRace = NoRace

\* ChatManager.__init__ (with ImageManager.__init__ and _create_main_thread)
ChatInit ==
    /\ now = 0
    /\ threads = [id \in {MAIN} |->
                    ChatThread(MAIN, 0, FALSE, 0, DefaultExpiresHours, 0)]
    /\ current_thread_id = MAIN
    /\ running = FALSE
    /\ sweeper = NoWorker
    /\ images = [id \in {} |-> 0]
    /\ files = [id \in {} |-> 0]
    /\ image_running = FALSE
    /\ image_sweeper = NoWorker
    /\ removed = {}
    /\ stored = [id \in {} |-> 0]
    /\ lastGet = NoGet
    /\ thr = NoThread
    /\ lastCreate = NoCreate
    /\ lastDelete = NoDelete
    /\ AuxInit

Init == RatchetInit /\ ChatInit /\ NetInit

\* The clock advances.
Tick ==
    /\ now < MaxTime
    /\ now' = now + 1
    /\ UNCHANGED ratchetVars
    /\ UNCHANGED netVars
    /\ UNCHANGED auxVars
    /\ UNCHANGED obsVars
    /\ UNCHANGED peerVars
    /\ UNCHANGED <<threads, current_thread_id, running, sweeper, images, files,
                   image_running, image_sweeper, removed, stored, lastGet, thr,
                   lastCreate, lastDelete>>

\* A worker that is iterating a dict sees it change size.
Disturb(worker, resized) ==
    IF worker.pc = "scan" /\ resized THEN [worker EXCEPT !.changed = TRUE]
    ELSE worker

\* ChatManager.start() with ImageManager.start(): both workers are spawned.
Start ==
    /\ sweeper.pc = "none"
    /\ running' = TRUE
    /\ image_running' = TRUE
    /\ sweeper' = [sweeper EXCEPT !.pc = "loop"]
    /\ image_sweeper' = [image_sweeper EXCEPT !.pc = "loop"]
    /\ UNCHANGED ratchetVars
    /\ UNCHANGED netVars
    /\ UNCHANGED auxVars
    /\ UNCHANGED obsVars
    /\ UNCHANGED peerVars
    /\ UNCHANGED <<now, threads, current_thread_id, images, files, removed,
                   stored, lastGet, thr, lastCreate, lastDelete>>

\* ImageManager._delete_image without `del self.images[image_id]`.
delete_image_keeps_entry(reg, image_id) ==
    IF image_id \in DOMAIN reg.images
    THEN [images |-> reg.images,
          files |-> Without(reg.files, reg.images[image_id].path)]
    ELSE reg

\* ImageManager._delete_image
delete_image(reg, image_id) ==
    IF image_id \in DOMAIN reg.images
    THEN [images |-> Without(reg.images, image_id),
          files |-> Without(reg.files, reg.images[image_id].path)]
    ELSE reg

\* ChatManager.stop() with ImageManager.stop() and _cleanup_all_images()
Stop ==
    /\ running' = FALSE
    /\ image_running' = FALSE
    /\ images' = [id \in {} |-> 0]
    /\ files' = [f \in (DOMAIN files) \ {images[id].path : id \in DOMAIN images}
                   |-> files[f]]
    /\ image_sweeper' = Disturb(image_sweeper, DOMAIN images # {})
    /\ UNCHANGED ratchetVars
    /\ UNCHANGED netVars
    /\ UNCHANGED auxVars
    /\ UNCHANGED obsVars
    /\ UNCHANGED peerVars
    /\ UNCHANGED <<now, threads, current_thread_id, sweeper, removed, stored, lastGet, thr,
                   lastCreate, lastDelete>>

\* ChatManager.create_thread(name, is_private, creator_id): the id is the
\* digest of name, creator and the clock reading, and the dict entry of that
\* id is assigned whether or not one exists.
create_thread_call(name, is_private, creator_id) ==
    LET thread_id == ThreadId(name, creator_id, now)
        thread == ChatThread(thread_id, name, is_private, creator_id,
                             DefaultExpiresHours, now)
    IN /\ (now <= MaxCreateTime \/ now >= LateCreateTime)
       /\ threads' = With(threads, thread_id, thread)
       /\ sweeper' = Disturb(sweeper, thread_id \notin DOMAIN threads)
       /\ lastCreate' = [called |-> TRUE, ret |-> thread_id,
                         repeat |-> lastCreate.called
                                    /\ lastCreate.name = name
                                    /\ lastCreate.creator_id = creator_id
                                    /\ lastCreate.at = now,
                         prior |-> lastCreate.ret,
                         name |-> name, creator_id |-> creator_id, at |-> now,
                         before |-> DOMAIN threads]
       /\ UNCHANGED ratchetVars
       /\ UNCHANGED netVars
       /\ UNCHANGED auxVars
       /\ UNCHANGED <<now, current_thread_id, running, images, files,
                      image_running, image_sweeper, removed, stored, lastGet, thr,
                      lastDelete>>

\* ChatManager.create_thread(name, is_private, creator_id)
CreateThread(name, is_private, creator_id) ==
    /\ create_thread_call(name, is_private, creator_id)
    /\ UNCHANGED obsVars
    /\ UNCHANGED peerVars

\* ChatManager.create_thread with the calls its handlers get.
ObservedCreateThread(name, is_private, creator_id) ==
    /\ create_thread_call(name, is_private, creator_id)
    /\ happened.thread_created < MaxEvents
    /\ events' = notify_handlers(events, "thread_created", 1)
    /\ happened' = [happened EXCEPT !.thread_created = @ + 1]
    /\ UNCHANGED peerVars

\* ChatManager.set_current_thread(thread_id)
SetCurrentThread(thread_id) ==
    /\ current_thread_id' = IF thread_id \in DOMAIN threads THEN thread_id
                            ELSE current_thread_id
    /\ UNCHANGED ratchetVars
    /\ UNCHANGED netVars
    /\ UNCHANGED auxVars
    /\ UNCHANGED obsVars
    /\ UNCHANGED peerVars
    /\ UNCHANGED <<now, threads, running, sweeper, images, files, image_running,
                   image_sweeper, removed, stored, lastGet, thr, lastCreate, lastDelete>>

\* ChatManager._cleanup_loop: the test of `while self.running`
SweepLoop ==
    /\ sweeper.pc = "loop"
    /\ sweeper' = IF running
                  THEN [pc |-> "scan", expired |-> {}, changed |-> FALSE]
                  ELSE [pc |-> "done", expired |-> {}, changed |-> FALSE]
    /\ UNCHANGED ratchetVars
    /\ UNCHANGED netVars
    /\ UNCHANGED auxVars
    /\ UNCHANGED obsVars
    /\ UNCHANGED peerVars
    /\ UNCHANGED <<now, threads, current_thread_id, running, images, files,
                   image_running, image_sweeper, removed, stored, lastGet, thr,
                   lastCreate, lastDelete>>

\* The cleanup worker without `except Exception`: the error ends it.
cleanup_except_raise(worker) ==
    [pc |-> "done", expired |-> {}, changed |-> FALSE]

\* `except Exception as e` of a _cleanup_loop: the error is printed and the
\* worker sleeps, then tests its `while` again.
cleanup_except(worker) ==
    [pc |-> "loop", expired |-> {}, changed |-> FALSE]

\* ChatManager._cleanup_loop: the iteration of self.threads.items(); a dict
\* that changed size during the iteration raises RuntimeError, which the
\* loop prints before it sleeps.
SweepScan ==
    /\ sweeper.pc = "scan"
    /\ sweeper' = IF sweeper.changed
                  THEN cleanup_except(sweeper)
                  ELSE [pc |-> "delete", expired |-> ExpiredThreads(threads, now),
                        changed |-> FALSE]
    /\ UNCHANGED ratchetVars
    /\ UNCHANGED netVars
    /\ UNCHANGED auxVars
    /\ UNCHANGED obsVars
    /\ UNCHANGED peerVars
    /\ UNCHANGED <<now, threads, current_thread_id, running, images, files,
                   image_running, image_sweeper, removed, stored, lastGet, thr,
                   lastCreate, lastDelete>>

\* ChatManager._delete_thread without the switch of the current thread.
delete_thread_keeps_current(reg, thread_id) ==
    IF thread_id \in DOMAIN reg.threads /\ thread_id # MAIN
    THEN [threads |-> Without(reg.threads, thread_id),
          current_thread_id |-> reg.current_thread_id]
    ELSE reg

\* ChatManager._delete_thread
delete_thread(reg, thread_id) ==
    IF thread_id \in DOMAIN reg.threads /\ thread_id # MAIN
    THEN [threads |-> Without(reg.threads, thread_id),
          current_thread_id |-> IF reg.current_thread_id = thread_id THEN MAIN
                                ELSE reg.current_thread_id]
    ELSE reg

\* ChatManager._cleanup_loop: one round of `for thread_id in expired_threads`
sweep_delete_round(thread_id) ==
    LET reg == [threads |-> threads, current_thread_id |-> current_thread_id]
        out == IF thread_id # MAIN THEN delete_thread(reg, thread_id) ELSE reg
    IN /\ sweeper.pc = "delete"
       /\ thread_id \in sweeper.expired
       /\ threads' = out.threads
       /\ current_thread_id' = out.current_thread_id
       /\ removed' = removed \cup ((DOMAIN threads) \ (DOMAIN out.threads))
       /\ sweeper' = [sweeper EXCEPT !.expired = @ \ {thread_id}]
       /\ lastDelete' = [called |-> TRUE, thread_id |-> thread_id,
                         present |-> thread_id \in DOMAIN threads,
                         was_current |-> current_thread_id = thread_id,
                         at |-> now]
       /\ UNCHANGED ratchetVars
       /\ UNCHANGED netVars
       /\ UNCHANGED auxVars
       /\ UNCHANGED <<now, running, images, files, image_running, image_sweeper,
                      stored, lastGet, thr, lastCreate>>

\* One round of the deletion loop of the thread cleanup worker.
SweepDelete(thread_id) ==
    /\ sweep_delete_round(thread_id)
    /\ UNCHANGED obsVars
    /\ UNCHANGED peerVars

\* One round of the deletion loop with the calls the handlers get from
\* _delete_thread.
ObservedSweepDelete(thread_id) ==
    /\ sweep_delete_round(thread_id)
    /\ events' = notify_handlers(events, "thread_deleted",
                                 Cardinality((DOMAIN threads) \ (DOMAIN threads')))
    /\ happened' = [happened EXCEPT
                      !.thread_deleted =
                          @ + Cardinality((DOMAIN threads) \ (DOMAIN threads'))]
    /\ UNCHANGED peerVars

\* ChatManager._cleanup_loop: time.sleep(60) after the deletions
SweepSleep ==
    /\ sweeper.pc = "delete"
    /\ sweeper.expired = {}
    /\ sweeper' = [sweeper EXCEPT !.pc = "loop"]
    /\ UNCHANGED ratchetVars
    /\ UNCHANGED netVars
    /\ UNCHANGED auxVars
    /\ UNCHANGED obsVars
    /\ UNCHANGED peerVars
    /\ UNCHANGED <<now, threads, current_thread_id, running, images, files,
                   image_running, image_sweeper, removed, stored, lastGet, thr,
                   lastCreate, lastDelete>>

\* ImageManager.store_image at clock reading t; t2 is the reading of the
\* second datetime.now() of the dict it records.
store_image(reg, image_data, sender_id, thread_id, t, t2) ==
    LET image_id == ImageId(image_data, sender_id, t)
        image_path == image_id
    IN [image_id |-> image_id,
        files |-> With(reg.files, image_path, image_data),
        images |-> With(reg.images, image_id,
                        [path |-> image_path,
                         sender_id |-> sender_id,
                         thread_id |-> thread_id,
                         created_at |-> t,
                         expires_at |-> t2 + timedelta_minutes(ImageExpiryMinutes)])]

\* ImageManager.get_image with >= as the comparison.
get_image_at_deadline(reg, image_id, t) ==
    IF image_id \notin DOMAIN reg.images
    THEN [images |-> reg.images, files |-> reg.files, ret |-> None]
    ELSE IF t >= reg.images[image_id].expires_at
    THEN [images |-> delete_image(reg, image_id).images,
          files |-> delete_image(reg, image_id).files,
          ret |-> None]
    ELSE [images |-> reg.images, files |-> reg.files,
          ret |-> IF reg.images[image_id].path \in DOMAIN reg.files
                  THEN Some(reg.files[reg.images[image_id].path])
                  ELSE None]

\* ImageManager.get_image at clock reading t
get_image(reg, image_id, t) ==
    IF image_id \notin DOMAIN reg.images
    THEN [images |-> reg.images, files |-> reg.files, ret |-> None]
    ELSE IF t > reg.images[image_id].expires_at
    THEN [images |-> delete_image(reg, image_id).images,
          files |-> delete_image(reg, image_id).files,
          ret |-> None]
    ELSE [images |-> reg.images, files |-> reg.files,
          ret |-> IF reg.images[image_id].path \in DOMAIN reg.files
                  THEN Some(reg.files[reg.images[image_id].path])
                  ELSE None]

\* ChatManager.add_image_message(image_data, sender_id, sender_username,
\* thread_id) for a thread of the registry; gap is the time that passes
\* between the two clock readings of store_image.
AddImageMessage(image_data, sender_id, thread_id, gap) ==
    LET reg == [images |-> images, files |-> files]
        out == store_image(reg, image_data, sender_id, thread_id, now, now + gap)
        message == ChatMessage(<<"IMAGE", out.image_id>>, sender_id, sender_id,
                               thread_id, now + gap, "image")
    IN /\ now + gap <= MaxCreateTime
       /\ thread_id \in DOMAIN threads
       /\ Len(threads[thread_id].messages) < MaxMessages
       /\ now' = now + gap
       /\ images' = out.images
       /\ files' = out.files
       /\ stored' = With(stored, out.image_id,
                         [data |-> image_data,
                          created_at |-> out.images[out.image_id].created_at,
                          expires_at |-> out.images[out.image_id].expires_at])
       /\ threads' = [threads EXCEPT
                        ![thread_id] = ChatThread_add_message(@, message)]
       /\ image_sweeper' = Disturb(image_sweeper, out.image_id \notin DOMAIN images)
       /\ UNCHANGED ratchetVars
       /\ UNCHANGED netVars
       /\ UNCHANGED auxVars
       /\ UNCHANGED obsVars
       /\ UNCHANGED peerVars
       /\ UNCHANGED <<current_thread_id, running, sweeper, image_running,
                      removed, lastGet, thr, lastCreate, lastDelete>>

\* The image ids a caller can hold.
KnownImageIds == DOMAIN stored \cup {ImageId(0, 0, 0)}

\* ImageManager.get_image(image_id)
GetImage(image_id) ==
    LET reg == [images |-> images, files |-> files]
        out == get_image(reg, image_id, now)
        known == image_id \in DOMAIN stored
    IN /\ images' = out.images
       /\ files' = out.files
       /\ image_sweeper' = Disturb(image_sweeper, DOMAIN out.images # DOMAIN images)
       /\ lastGet' =
            [called |-> TRUE, image_id |-> image_id, ret |-> out.ret,
             known |-> known,
             held |-> image_id \in DOMAIN images,
             data |-> IF known THEN Some(stored[image_id].data) ELSE None,
             early |-> known /\ now < stored[image_id].created_at
                                      + timedelta_minutes(ImageExpiryMinutes),
             past |-> known /\ now > stored[image_id].expires_at]
       /\ UNCHANGED ratchetVars
       /\ UNCHANGED netVars
       /\ UNCHANGED auxVars
       /\ UNCHANGED obsVars
       /\ UNCHANGED peerVars
       /\ UNCHANGED <<now, threads, current_thread_id, running, sweeper,
                      image_running, removed, stored, thr, lastCreate, lastDelete>>

\* ImageManager._cleanup_loop: the test of `while self.running`
ImageSweepLoop ==
    /\ image_sweeper.pc = "loop"
    /\ image_sweeper' = IF image_running
                        THEN [pc |-> "scan", expired |-> {}, changed |-> FALSE]
                        ELSE [pc |-> "done", expired |-> {}, changed |-> FALSE]
    /\ UNCHANGED ratchetVars
    /\ UNCHANGED netVars
    /\ UNCHANGED auxVars
    /\ UNCHANGED obsVars
    /\ UNCHANGED peerVars
    /\ UNCHANGED <<now, threads, current_thread_id, running, sweeper, images,
                   files, image_running, removed, stored, lastGet, thr,
                   lastCreate, lastDelete>>

\* ImageManager._cleanup_loop: current_time = datetime.now() and the
\* iteration of self.images.items()
ImageSweepScan ==
    /\ image_sweeper.pc = "scan"
    /\ image_sweeper' =
         IF image_sweeper.changed
         THEN cleanup_except(image_sweeper)
         ELSE [pc |-> "delete", expired |-> ExpiredImages(images, now),
               changed |-> FALSE]
    /\ UNCHANGED ratchetVars
    /\ UNCHANGED netVars
    /\ UNCHANGED auxVars
    /\ UNCHANGED obsVars
    /\ UNCHANGED peerVars
    /\ UNCHANGED <<now, threads, current_thread_id, running, sweeper, images,
                   files, image_running, removed, stored, lastGet, thr,
                   lastCreate, lastDelete>>

\* ImageManager._cleanup_loop: one round of `for image_id in expired_images`
image_sweep_delete_round(image_id) ==
    LET out == delete_image([images |-> images, files |-> files], image_id)
    IN /\ image_sweeper.pc = "delete"
       /\ image_id \in image_sweeper.expired
       /\ images' = out.images
       /\ files' = out.files
       /\ image_sweeper' = [image_sweeper EXCEPT !.expired = @ \ {image_id}]
       /\ UNCHANGED ratchetVars
       /\ UNCHANGED netVars
       /\ UNCHANGED auxVars
       /\ UNCHANGED <<now, threads, current_thread_id, running, sweeper,
                      image_running, removed, stored, lastGet, thr, lastCreate, lastDelete>>

\* One round of the deletion loop of the image cleanup worker.
ImageSweepDelete(image_id) ==
    /\ image_sweep_delete_round(image_id)
    /\ UNCHANGED obsVars
    /\ UNCHANGED peerVars

\* One round of the deletion loop of the image worker: _delete_image calls
\* no handler.
ObservedImageSweepDelete(image_id) ==
    /\ image_sweep_delete_round(image_id)
    /\ UNCHANGED events
    /\ happened' = [happened EXCEPT
                      !.image_deleted =
                          @ + Cardinality((DOMAIN images) \ (DOMAIN images'))]
    /\ UNCHANGED peerVars

\* ImageManager._cleanup_loop: time.sleep(60) after the deletions
ImageSweepSleep ==
    /\ image_sweeper.pc = "delete"
    /\ image_sweeper.expired = {}
    /\ image_sweeper' = [image_sweeper EXCEPT !.pc = "loop"]
    /\ UNCHANGED ratchetVars
    /\ UNCHANGED netVars
    /\ UNCHANGED auxVars
    /\ UNCHANGED obsVars
    /\ UNCHANGED peerVars
    /\ UNCHANGED <<now, threads, current_thread_id, running, sweeper, images,
                   files, image_running, removed, stored, lastGet, thr,
                   lastCreate, lastDelete>>

\* ImageManager._delete_image entered by the image cleanup worker: the test
\* `if image_id in self.images`, the read of image_info and os.remove.
ImageDeleteTest(image_id) ==
    /\ image_sweeper.pc = "delete"
    /\ image_id \in image_sweeper.expired
    /\ deleting = None
    /\ IF image_id \in DOMAIN images
       THEN /\ deleting' = Some(image_id)
            /\ files' = Without(files, images[image_id].path)
            /\ UNCHANGED image_sweeper
       ELSE /\ image_sweeper' = [image_sweeper EXCEPT !.expired = @ \ {image_id}]
            /\ UNCHANGED <<deleting, files>>
    /\ UNCHANGED ratchetVars
    /\ UNCHANGED netVars
    /\ UNCHANGED obsVars
    /\ UNCHANGED peerVars
    /\ UNCHANGED <<lastAdd, raceVars, stopper>>
    /\ UNCHANGED <<now, threads, current_thread_id, running, sweeper, images,
                   image_running, removed, stored, lastGet, thr, lastCreate,
                   lastDelete>>

\* ImageManager._delete_image in the image cleanup worker:
\* `del self.images[image_id]`. A key that left the dict since the test
\* raises KeyError, which the worker's `except Exception` prints.
ImageDeleteDel ==
    /\ image_sweeper.pc = "delete"
    /\ deleting # None
    /\ LET image_id == deleting[1]
       IN IF image_id \in DOMAIN images
          THEN /\ images' = Without(images, image_id)
               /\ image_sweeper' = [image_sweeper EXCEPT !.expired = @ \ {image_id}]
          ELSE /\ image_sweeper' = cleanup_except(image_sweeper)
               /\ UNCHANGED images
    /\ deleting' = None
    /\ UNCHANGED ratchetVars
    /\ UNCHANGED netVars
    /\ UNCHANGED obsVars
    /\ UNCHANGED peerVars
    /\ UNCHANGED <<lastAdd, raceVars, stopper>>
    /\ UNCHANGED <<now, threads, current_thread_id, running, sweeper, files,
                   image_running, removed, stored, lastGet, thr, lastCreate,
                   lastDelete>>

\* ChatManager.stop(): self.running = False, then ImageManager.stop():
\* self.running = False.
StopFlags ==
    /\ stopper.pc = "none"
    /\ running
    /\ running' = FALSE
    /\ image_running' = FALSE
    /\ stopper' = [stopper EXCEPT !.pc = "snapshot"]
    /\ UNCHANGED ratchetVars
    /\ UNCHANGED netVars
    /\ UNCHANGED obsVars
    /\ UNCHANGED peerVars
    /\ UNCHANGED <<lastAdd, raceVars, deleting>>
    /\ UNCHANGED <<now, threads, current_thread_id, sweeper, images, files,
                   image_sweeper, removed, stored, lastGet, thr, lastCreate,
                   lastDelete>>

\* ImageManager._cleanup_all_images: list(self.images.keys())
StopSnapshot ==
    /\ stopper.pc = "snapshot"
    /\ stopper' = [stopper EXCEPT !.pc = "loop", !.keys = DOMAIN images]
    /\ UNCHANGED ratchetVars
    /\ UNCHANGED netVars
    /\ UNCHANGED obsVars
    /\ UNCHANGED peerVars
    /\ UNCHANGED <<lastAdd, raceVars, deleting>>
    /\ UNCHANGED <<now, threads, current_thread_id, running, sweeper, images,
                   files, image_running, image_sweeper, removed, stored,
                   lastGet, thr, lastCreate, lastDelete>>

\* ImageManager._delete_image entered from _cleanup_all_images: the test
\* `if image_id in self.images`, the read of image_info and os.remove.
StopDeleteTest(image_id) ==
    /\ stopper.pc = "loop"
    /\ image_id \in stopper.keys
    /\ stopper.cur = None
    /\ IF image_id \in DOMAIN images
       THEN /\ stopper' = [stopper EXCEPT !.cur = Some(image_id)]
            /\ files' = Without(files, images[image_id].path)
       ELSE /\ stopper' = [stopper EXCEPT !.keys = @ \ {image_id}]
            /\ UNCHANGED files
    /\ UNCHANGED ratchetVars
    /\ UNCHANGED netVars
    /\ UNCHANGED obsVars
    /\ UNCHANGED peerVars
    /\ UNCHANGED <<lastAdd, raceVars, deleting>>
    /\ UNCHANGED <<now, threads, current_thread_id, running, sweeper, images,
                   image_running, image_sweeper, removed, stored, lastGet, thr,
                   lastCreate, lastDelete>>

\* ImageManager._delete_image in _cleanup_all_images:
\* `del self.images[image_id]`. A key that left the dict since the test
\* raises KeyError; neither _cleanup_all_images nor either stop() catches it.
StopDeleteDel ==
    /\ stopper.pc = "loop"
    /\ stopper.cur # None
    /\ LET image_id == stopper.cur[1]
       IN IF image_id \in DOMAIN images
          THEN /\ images' = Without(images, image_id)
               /\ image_sweeper' = Disturb(image_sweeper, TRUE)
               /\ stopper' = [stopper EXCEPT !.keys = @ \ {image_id},
                                             !.cur = None]
          ELSE /\ stopper' = [stopper EXCEPT !.pc = "raised", !.cur = None,
                                             !.left = DOMAIN images]
               /\ UNCHANGED <<images, image_sweeper>>
    /\ UNCHANGED ratchetVars
    /\ UNCHANGED netVars
    /\ UNCHANGED obsVars
    /\ UNCHANGED peerVars
    /\ UNCHANGED <<lastAdd, raceVars, deleting>>
    /\ UNCHANGED <<now, threads, current_thread_id, running, sweeper, files,
                   image_running, removed, stored, lastGet, thr, lastCreate,
                   lastDelete>>

\* ImageManager._cleanup_all_images, ImageManager.stop() and
\* ChatManager.stop() return once the loop over the listed keys ends.
StopReturn ==
    /\ stopper.pc = "loop"
    /\ stopper.keys = {}
    /\ stopper' = [stopper EXCEPT !.pc = "returned", !.left = DOMAIN images]
    /\ UNCHANGED ratchetVars
    /\ UNCHANGED netVars
    /\ UNCHANGED obsVars
    /\ UNCHANGED peerVars
    /\ UNCHANGED <<lastAdd, raceVars, deleting>>
    /\ UNCHANGED <<now, threads, current_thread_id, running, sweeper, images,
                   files, image_running, image_sweeper, removed, stored,
                   lastGet, thr, lastCreate, lastDelete>>

\* The thread id a call names: self.current_thread_id when it passes None.
TargetThread(reg, thread_id) ==
    IF thread_id = None THEN reg.current_thread_id ELSE thread_id

\* ChatManager.add_message falling back to the main thread for a thread_id
\* that is not in self.threads.
add_message_fallback(reg, content, sender_id, sender_username, thread_id, message_type, t) ==
    LET named == TargetThread(reg, thread_id)
        target == IF named \in DOMAIN reg.threads THEN named ELSE MAIN
        message == ChatMessage(content, sender_id, sender_username, target,
                               t, message_type)
    IN [threads |-> [reg.threads EXCEPT
                       ![target] = ChatThread_add_message(@, message)],
        ret |-> Some(message),
        notified |-> TRUE]

\* ChatManager.add_message at clock reading t: the registry after it, what
\* it returns, and whether the message handlers were called.
add_message(reg, content, sender_id, sender_username, thread_id, message_type, t) ==
    LET target == TargetThread(reg, thread_id)
        message == ChatMessage(content, sender_id, sender_username, target,
                               t, message_type)
    IN IF target \notin DOMAIN reg.threads
       THEN [threads |-> reg.threads, ret |-> None, notified |-> FALSE]
       ELSE [threads |-> [reg.threads EXCEPT
                            ![target] = ChatThread_add_message(@, message)],
             ret |-> Some(message),
             notified |-> TRUE]

\* ChatManager.add_image_message at clock reading t
add_image_message(reg, image_data, sender_id, sender_username, thread_id, t) ==
    LET target == TargetThread(reg, thread_id)
        out == store_image([images |-> reg.images, files |-> reg.files],
                           image_data, sender_id, target, t, t)
        message == ChatMessage(<<"IMAGE", out.image_id>>, sender_id,
                               sender_username, target, t, "image")
    IN IF target \notin DOMAIN reg.threads
       THEN [threads |-> reg.threads, images |-> reg.images,
             files |-> reg.files, ret |-> None, notified |-> FALSE]
       ELSE [threads |-> [reg.threads EXCEPT
                            ![target] = ChatThread_add_message(@, message)],
             images |-> out.images, files |-> out.files,
             ret |-> Some(message), notified |-> TRUE]

\* A thread id no create_thread call of the model returns.
UnknownThreadId == ThreadId(0, 0, 0)

\* The thread_id arguments callers pass: None, an id of the registry, and
\* an id that is not in it.
ThreadIdArgs == {None, UnknownThreadId} \cup DOMAIN threads

\* ChatManager.add_message(content, sender_id, sender_username, thread_id)
AddMessage(content, sender_id, thread_id) ==
    LET reg == [threads |-> threads, current_thread_id |-> current_thread_id]
        out == add_message(reg, content, sender_id, sender_id, thread_id,
                           "text", now)
    IN /\ lastAdd.n < MaxAdds
       /\ now <= MaxCreateTime
       /\ threads' = out.threads
       /\ lastAdd' = [n |-> lastAdd.n + 1, op |-> "add_message",
                      target |-> TargetThread(reg, thread_id),
                      ret |-> out.ret, notified |-> out.notified,
                      missing |-> TargetThread(reg, thread_id) \notin DOMAIN threads]
       /\ UNCHANGED ratchetVars
       /\ UNCHANGED stopVars
       /\ UNCHANGED raceVars
       /\ UNCHANGED netVars
       /\ UNCHANGED obsVars
       /\ UNCHANGED peerVars
       /\ UNCHANGED <<now, current_thread_id, running, sweeper, images, files,
                      image_running, image_sweeper, removed, stored, lastGet,
                      thr, lastCreate, lastDelete>>

\* ChatManager.add_image_message(image_data, sender_id, sender_username,
\* thread_id)
AddImageCall(image_data, sender_id, thread_id) ==
    LET reg == [threads |-> threads, current_thread_id |-> current_thread_id,
                images |-> images, files |-> files]
        out == add_image_message(reg, image_data, sender_id, sender_id,
                                 thread_id, now)
    IN /\ lastAdd.n < MaxAdds
       /\ now <= MaxCreateTime
       /\ threads' = out.threads
       /\ images' = out.images
       /\ files' = out.files
       /\ stored' = [id \in DOMAIN out.images \cup DOMAIN stored |->
                       IF id \in DOMAIN out.images /\ id \notin DOMAIN images
                       THEN [data |-> image_data,
                             created_at |-> out.images[id].created_at,
                             expires_at |-> out.images[id].expires_at]
                       ELSE IF id \in DOMAIN stored THEN stored[id]
                       ELSE [data |-> image_data,
                             created_at |-> out.images[id].created_at,
                             expires_at |-> out.images[id].expires_at]]
       /\ image_sweeper' = Disturb(image_sweeper, DOMAIN out.images # DOMAIN images)
       /\ lastAdd' = [n |-> lastAdd.n + 1, op |-> "add_image_message",
                      target |-> TargetThread(reg, thread_id),
                      ret |-> out.ret, notified |-> out.notified,
                      missing |-> TargetThread(reg, thread_id) \notin DOMAIN threads]
       /\ UNCHANGED ratchetVars
       /\ UNCHANGED stopVars
       /\ UNCHANGED raceVars
       /\ UNCHANGED netVars
       /\ UNCHANGED obsVars
       /\ UNCHANGED peerVars
       /\ UNCHANGED <<now, current_thread_id, running, sweeper, image_running,
                      removed, lastGet, thr, lastCreate, lastDelete>>

\* set_current_thread: the test `thread_id in self.threads`.
SetCurrentTest(thread_id) ==
    /\ caller.pc = "idle"
    /\ caller' = IF thread_id \in DOMAIN threads
                 THEN [pc |-> "assign", thread_id |-> thread_id]
                 ELSE Idle
    /\ UNCHANGED ratchetVars
    /\ UNCHANGED stopVars
    /\ UNCHANGED netVars
    /\ UNCHANGED obsVars
    /\ UNCHANGED peerVars
    /\ UNCHANGED <<now, threads, current_thread_id, running, sweeper, images,
                   files, image_running, image_sweeper, removed, stored,
                   lastGet, thr, lastCreate, lastDelete, lastAdd, lastRace>>

\* set_current_thread: the assignment self.current_thread_id = thread_id.
SetCurrentAssign ==
    /\ caller.pc = "assign"
    /\ current_thread_id' = caller.thread_id
    /\ caller' = Idle
    /\ UNCHANGED ratchetVars
    /\ UNCHANGED stopVars
    /\ UNCHANGED netVars
    /\ UNCHANGED obsVars
    /\ UNCHANGED peerVars
    /\ UNCHANGED <<now, threads, running, sweeper, images, files,
                   image_running, image_sweeper, removed, stored, lastGet,
                   thr, lastCreate, lastDelete, lastAdd, lastRace>>

\* add_message: thread_id is resolved and tested, and the call returns None
\* for an id that is not in self.threads.
AddMessageTest(thread_id) ==
    LET reg == [threads |-> threads, current_thread_id |-> current_thread_id]
        target == TargetThread(reg, thread_id)
    IN /\ caller.pc = "idle"
       /\ lastRace.n < MaxMessages
       /\ now >= LateCreateTime
       /\ IF target \in DOMAIN threads
          THEN /\ caller' = [pc |-> "append", thread_id |-> target]
               /\ UNCHANGED lastRace
          ELSE /\ caller' = Idle
               /\ lastRace' = [n |-> lastRace.n + 1, raised |-> "",
                               ret |-> None, notified |-> FALSE,
                               appended |-> FALSE]
       /\ UNCHANGED ratchetVars
       /\ UNCHANGED stopVars
       /\ UNCHANGED netVars
       /\ UNCHANGED obsVars
       /\ UNCHANGED peerVars
       /\ UNCHANGED <<now, threads, current_thread_id, running, sweeper, images,
                      files, image_running, image_sweeper, removed, stored,
                      lastGet, thr, lastCreate, lastDelete, lastAdd>>

\* add_message: self.threads[thread_id].add_message(message) and the
\* handlers; the subscript raises KeyError for an id that left the dict
\* after the test.
AddMessageAppend(content, sender_id) ==
    LET reg == [threads |-> threads, current_thread_id |-> current_thread_id]
        out == add_message(reg, content, sender_id, sender_id,
                           caller.thread_id, "text", now)
    IN /\ caller.pc = "append"
       /\ caller' = Idle
       /\ IF caller.thread_id \in DOMAIN threads
          THEN /\ threads' = out.threads
               /\ lastRace' = [n |-> lastRace.n + 1, raised |-> "",
                               ret |-> out.ret, notified |-> out.notified,
                               appended |-> TRUE]
          ELSE /\ UNCHANGED threads
               /\ lastRace' = [n |-> lastRace.n + 1, raised |-> "KeyError",
                               ret |-> None, notified |-> FALSE,
                               appended |-> FALSE]
       /\ UNCHANGED ratchetVars
       /\ UNCHANGED stopVars
       /\ UNCHANGED netVars
       /\ UNCHANGED obsVars
       /\ UNCHANGED peerVars
       /\ UNCHANGED <<now, current_thread_id, running, sweeper, images, files,
                      image_running, image_sweeper, removed, stored, lastGet,
                      thr, lastCreate, lastDelete, lastAdd>>

\* The expires_hours values callers pass to ChatThread.
ExpiresHours == {0, 1, DefaultExpiresHours}

\* A caller constructs ChatThread(thread_id, name, False, creator_id,
\* expires_hours).
ConstructThread(thread_id, expires_hours) ==
    /\ now <= MaxCreateTime
    /\ thr' = [hours |-> expires_hours,
               obj |-> ChatThread(thread_id, 1, FALSE, 1, expires_hours, now),
               made |-> TRUE]
    /\ UNCHANGED ratchetVars
    /\ UNCHANGED netVars
    /\ UNCHANGED auxVars
    /\ UNCHANGED obsVars
    /\ UNCHANGED peerVars
    /\ UNCHANGED <<now, threads, current_thread_id, running, sweeper, images,
                   files, image_running, image_sweeper, removed, stored, lastGet,
                   lastCreate, lastDelete>>

\* ------------------------------------------------------- network: server
\* The outcome of one _process_message call: the registry and the threads
\* it leaves, the exception that left it ("" for none), whether it closed
\* the socket, the broadcast loop it entered, and whether it bound a JOIN.
Outcome(cl, thrs, raised, closed, loop, bound) ==
    [clients |-> cl, threads |-> thrs, raised |-> raised, closed |-> closed,
     loop |-> loop, bound |-> bound]

\* The iterator `for other_socket in self.clients.keys()` creates: it
\* remembers the size of the dict. keys and gone are history: the keys at
\* that moment and the connections already disconnected then.
StartLoop(cl, msg_type, response, gone) ==
    [type |-> msg_type, response |-> response, size |-> Cardinality(DOMAIN cl),
     keys |-> DOMAIN cl, gone |-> gone, visited |-> {}, sent |-> <<>>]

\* NetworkServer._handle_join; ok tells whether client_socket.send succeeds.
process_join(cl, thrs, client_socket, message, ok) ==
    LET data == Get(message[2], "data", Obj(<<>>))
        info == handle_join(cl[client_socket], data)
    IN IF ~IsDict(data) THEN Outcome(cl, thrs, "AttributeError", FALSE, NoLoop, FALSE)
       ELSE Outcome([cl EXCEPT ![client_socket] = info], thrs,
                    IF ok THEN "" ELSE "OSError", FALSE, NoLoop, TRUE)

\* NetworkServer._handle_leave
process_leave(cl, thrs, client_socket) ==
    Outcome(disconnect_client(cl, client_socket), thrs, "", TRUE, NoLoop, FALSE)

\* broadcast_data taking the sender fields the client supplied, where it
\* supplied them.
sender_of_data(client_info, data) ==
    [sender_id |-> Get(data[2], "sender_id", client_info.user_id),
     sender_username |-> Get(data[2], "sender_username", client_info.username)]

\* The sender fields of broadcast_data: client_info['user_id'] and
\* client_info['username'].
sender_of(client_info, data) ==
    [sender_id |-> client_info.user_id,
     sender_username |-> client_info.username]

\* _handle_message and _handle_image with the payload of broadcast_data
\* read from the wrong key of data.
process_relay_wrong_key(cl, thrs, client_socket, message, msg_type, field, gone) ==
    LET data == Get(message[2], "data", Obj(<<>>))
        client_info == cl[client_socket]
        broadcast_data ==
            Obj([payload |-> <<field, Get(data[2], "timestamp", 0)>>,
                 thread_id |-> Get(data[2], "thread_id", MAIN),
                 sender_id |-> sender_of(client_info, data).sender_id,
                 sender_username |-> sender_of(client_info, data).sender_username])
    IN IF ~HasJoined(cl, client_socket)
       THEN Outcome(cl, thrs, "", FALSE, NoLoop, FALSE)
       ELSE IF ~IsDict(data)
       THEN Outcome(cl, thrs, "AttributeError", FALSE, NoLoop, FALSE)
       ELSE Outcome(cl, thrs, "", FALSE,
                    StartLoop(cl, msg_type,
                              create_message(msg_type, broadcast_data,
                                             client_info.user_id),
                              gone),
                    FALSE)

\* NetworkServer._handle_message and _handle_image, up to the loop
process_relay(cl, thrs, client_socket, message, msg_type, field, gone) ==
    LET data == Get(message[2], "data", Obj(<<>>))
        client_info == cl[client_socket]
        broadcast_data ==
            Obj([payload |-> <<field, Get(data[2], field, None)>>,
                 thread_id |-> Get(data[2], "thread_id", MAIN),
                 sender_id |-> sender_of(client_info, data).sender_id,
                 sender_username |-> sender_of(client_info, data).sender_username])
    IN IF ~HasJoined(cl, client_socket)
       THEN Outcome(cl, thrs, "", FALSE, NoLoop, FALSE)
       ELSE IF ~IsDict(data)
       THEN Outcome(cl, thrs, "AttributeError", FALSE, NoLoop, FALSE)
       ELSE Outcome(cl, thrs, "", FALSE,
                    StartLoop(cl, msg_type,
                              create_message(msg_type, broadcast_data,
                                             client_info.user_id),
                              gone),
                    FALSE)

\* NetworkServer._handle_create_thread at clock reading t, up to the loop
process_create_thread(cl, thrs, client_socket, message, t, gone) ==
    LET data == Get(message[2], "data", Obj(<<>>))
        client_info == cl[client_socket]
        thread_name == Get(data[2], "thread_name", None)
        is_private == Get(data[2], "is_private", FALSE)
        creator_id == Get(data[2], "creator_id", None)
        thread_id == ThreadId(thread_name, creator_id, t)
        expires_at == Some(t + timedelta_hours(DefaultExpiresHours))
        thread_data ==
            Obj([thread_id |-> thread_id, thread_name |-> thread_name,
                 is_private |-> is_private,
                 creator_username |-> client_info.username,
                 expires_at |-> expires_at])
    IN IF ~HasJoined(cl, client_socket)
       THEN Outcome(cl, thrs, "", FALSE, NoLoop, FALSE)
       ELSE IF ~IsDict(data)
       THEN Outcome(cl, thrs, "AttributeError", FALSE, NoLoop, FALSE)
       ELSE Outcome(cl,
                    With(thrs, thread_id,
                         [name |-> thread_name, is_private |-> is_private,
                          created_at |-> t, expires_at |-> expires_at,
                          creator_id |-> creator_id]),
                    "", FALSE,
                    StartLoop(cl, CREATE_THREAD,
                              create_message(CREATE_THREAD, thread_data,
                                             client_info.user_id),
                              gone),
                    FALSE)

\* NetworkServer._process_message: message.get on a value that is not a
\* dict raises AttributeError; a type without a branch does nothing.
process_message(cl, thrs, client_socket, message, t, ok, gone) ==
    IF ~IsDict(message)
    THEN Outcome(cl, thrs, "AttributeError", FALSE, NoLoop, FALSE)
    ELSE IF TypeOf(message) = JOIN
    THEN process_join(cl, thrs, client_socket, message, ok)
    ELSE IF TypeOf(message) = LEAVE
    THEN process_leave(cl, thrs, client_socket)
    ELSE IF TypeOf(message) = MESSAGE
    THEN process_relay(cl, thrs, client_socket, message, MESSAGE, "content", gone)
    ELSE IF TypeOf(message) = IMAGE
    THEN process_relay(cl, thrs, client_socket, message, IMAGE, "image_data", gone)
    ELSE IF TypeOf(message) = CREATE_THREAD
    THEN process_create_thread(cl, thrs, client_socket, message, t, gone)
    ELSE Outcome(cl, thrs, "", FALSE, NoLoop, FALSE)

\* The connections whose worker has left its read loop or has processed a
\* LEAVE.
Gone == {k \in Conns : handler[k].pc = "done"
                       \/ (handler[k].pc = "recv" /\ ~handler[k].open)}

\* _accept_loop starts a worker, and _handle_client registers the socket.
Accept(c) ==
    /\ handler[c].pc = "none"
    /\ \A k \in Conns : k < c => handler[k].pc # "none"
    /\ clients' = With(clients, c, NewClientInfo)
    /\ handler' = [handler EXCEPT ![c] = [pc |-> "recv", open |-> TRUE]]
    /\ last' = NoRead
    /\ relayed' = NoRelay
    /\ exit' = NoExit
    /\ UNCHANGED <<server_threads, bcast, joins, reads>>
    /\ UNCHANGED relayVars
    /\ UNCHANGED ratchetVars
    /\ UNCHANGED chatVars

\* _handle_client: the worker leaves the loop, and `finally` runs
\* _disconnect_client.
Leave(cl, c, why) ==
    /\ clients' = disconnect_client(cl, c)
    /\ handler' = [handler EXCEPT ![c] = [pc |-> "done", open |-> FALSE]]
    /\ exit' = [conn |-> c, why |-> why]
    /\ joins' = OfRegistered(joins, disconnect_client(cl, c))

\* _handle_client: recv returns b''.
RecvEof(c) ==
    /\ handler[c].pc = "recv"
    /\ handler[c].open
    /\ Leave(clients, c, "eof")
    /\ last' = NoRead
    /\ relayed' = NoRelay
    /\ UNCHANGED <<server_threads, bcast, reads>>
    /\ UNCHANGED relayVars
    /\ UNCHANGED ratchetVars
    /\ UNCHANGED chatVars

\* _handle_client: recv raises (the peer reset the connection).
RecvError(c) ==
    /\ handler[c].pc = "recv"
    /\ handler[c].open
    /\ Leave(clients, c, "error")
    /\ last' = NoRead
    /\ relayed' = NoRelay
    /\ UNCHANGED <<server_threads, bcast, reads>>
    /\ UNCHANGED relayVars
    /\ UNCHANGED ratchetVars
    /\ UNCHANGED chatVars

\* _handle_client: recv on the socket _handle_leave closed raises.
RecvClosed(c) ==
    /\ handler[c].pc = "recv"
    /\ ~handler[c].open
    /\ Leave(clients, c, "closed")
    /\ last' = NoRead
    /\ relayed' = NoRelay
    /\ UNCHANGED <<server_threads, bcast, reads>>
    /\ UNCHANGED relayVars
    /\ UNCHANGED ratchetVars
    /\ UNCHANGED chatVars

\* _handle_client: recv returns data; parse_message and _process_message up
\* to the first round of a broadcast loop.
ReadAndProcess(c, data, ok) ==
    LET message == parse_message(data)
        out == process_message(clients, server_threads, c, message, now, ok, Gone)
    IN /\ handler[c].pc = "recv"
       /\ handler[c].open
       /\ reads < MaxReads
       /\ reads' = reads + 1
       /\ server_threads' = out.threads
       /\ bcast' = [bcast EXCEPT ![c] = out.loop]
       /\ IF out.raised # ""
          THEN Leave(out.clients, c, out.raised)
          ELSE /\ clients' = out.clients
               /\ handler' = [handler EXCEPT ![c] =
                                [pc |-> IF out.loop.type # "None" THEN "bcast"
                                        ELSE "recv",
                                 open |-> ~out.closed]]
               /\ exit' = NoExit
               /\ joins' = OfRegistered(
                              IF out.bound
                              THEN [joins EXCEPT ![c] = Get(message[2], "data",
                                                            NotAnObject)]
                              ELSE joins,
                              out.clients)
       /\ last' = [conn |-> c, raw |-> data, parsed |-> message,
                   type |-> IF IsDict(message) THEN TypeOf(message) ELSE "None",
                   joined |-> clients[c].user_id # None,
                   threads_kept |-> out.threads = server_threads,
                   raised |-> out.raised,
                   bound |-> out.bound,
                   rejoined |-> out.bound /\ joins[c] # NotAnObject,
                   completes |-> /\ data[1] = "fragment"
                                 /\ data[3] = 2
                                 /\ last.conn = c
                                 /\ last.raw = Fragment(data[2], 1)]
       /\ relayed' = NoRelay
       /\ UNCHANGED ratchetVars
       /\ UNCHANGED chatVars

\* The contents the sender's inbox holds after the worker of c read data:
\* the content of a MESSAGE envelope of a joined connection is appended.
InboxAfter(c, data) ==
    LET message == parse_message(data)
        body == Get(message[2], "data", Obj(<<>>))
    IN IF /\ IsDict(message)
          /\ TypeOf(message) = MESSAGE
          /\ clients[c].user_id # None
          /\ IsDict(body)
       THEN [inbox EXCEPT ![c] = Append(@, Get(body[2], "content", None))]
       ELSE inbox

\* A read with data and what follows it.
RecvBytes(c, data, ok) ==
    /\ ReadAndProcess(c, data, ok)
    /\ UNCHANGED relayVars

\* A read with data and what follows it, with the history of the relay.
RelayRecvBytes(c, data, ok) ==
    /\ ReadAndProcess(c, data, ok)
    /\ inbox' = InboxAfter(c, data)
    /\ UNCHANGED outbox

\* The key the iterator of self.clients.keys() hands out next: the first
\* key, in the order of insertion, it has not handed out.
NextKey(cl, visited) ==
    CHOOSE k \in (DOMAIN cl) \ visited : \A j \in (DOMAIN cl) \ visited : k <= j

\* One round of the broadcast loop: the iterator hands out the next key of
\* self.clients, and the body sends to it unless it is the sender's own
\* socket in a loop that skips it. ok tells whether the send succeeds.
BroadcastRound(c, ok) ==
    LET loop == bcast[c]
        other_socket == NextKey(clients, loop.visited)
        skip == SkipsSender(loop.type) /\ other_socket = c
    IN /\ handler[c].pc = "bcast"
       /\ Cardinality(DOMAIN clients) = loop.size
       /\ (DOMAIN clients) \ loop.visited # {}
       /\ skip => ok
       /\ bcast' = [bcast EXCEPT ![c] =
                      [loop EXCEPT !.visited = @ \cup {other_socket},
                                   !.sent = IF skip THEN @
                                            ELSE Append(@, <<other_socket, ok>>)]]
       /\ IF skip \/ AfterSend(ok) = "next"
          THEN /\ UNCHANGED <<clients, handler, joins>>
               /\ exit' = NoExit
          ELSE Leave(clients, c, "SendError")
       /\ last' = NoRead
       /\ relayed' = NoRelay
       /\ UNCHANGED <<server_threads, reads>>
       /\ UNCHANGED ratchetVars
       /\ UNCHANGED chatVars

\* The content of the MESSAGE envelope a broadcast loop sends.
ContentOf(response) == response[2][2].data[2].payload[2]

\* The outbox after the round of the loop of c that BroadcastRound makes:
\* the content of a MESSAGE is appended for the socket it is sent to.
OutboxAfter(c) ==
    LET loop == bcast[c]
        other_socket == NextKey(clients, loop.visited)
    IN IF loop.type = MESSAGE /\ ~(SkipsSender(loop.type) /\ other_socket = c)
       THEN [outbox EXCEPT ![c][other_socket] = Append(@, ContentOf(loop.response))]
       ELSE outbox

\* One round of a broadcast loop.
BroadcastStep(c, ok) ==
    /\ BroadcastRound(c, ok)
    /\ UNCHANGED relayVars

\* One round of a broadcast loop, with the history of the relay.
RelayBroadcastStep(c, ok) ==
    /\ BroadcastRound(c, ok)
    /\ outbox' = OutboxAfter(c)
    /\ UNCHANGED inbox

\* The iterator finds the size of self.clients changed: RuntimeError
\* ("dictionary changed size during iteration") leaves the handler and
\* _process_message, and _handle_client disconnects the sender.
BroadcastRaise(c) ==
    /\ handler[c].pc = "bcast"
    /\ Cardinality(DOMAIN clients) # bcast[c].size
    /\ Leave(clients, c, "RuntimeError")
    /\ last' = NoRead
    /\ relayed' = NoRelay
    /\ UNCHANGED <<server_threads, bcast, reads>>
    /\ UNCHANGED relayVars
    /\ UNCHANGED ratchetVars
    /\ UNCHANGED chatVars

\* The iterator is exhausted: the handler returns and the worker reads on.
BroadcastEnd(c) ==
    /\ handler[c].pc = "bcast"
    /\ Cardinality(DOMAIN clients) = bcast[c].size
    /\ (DOMAIN clients) \ bcast[c].visited = {}
    /\ handler' = [handler EXCEPT ![c].pc = "recv"]
    /\ relayed' = [conn |-> c, loop |-> bcast[c], registry |-> DOMAIN clients]
    /\ bcast' = [bcast EXCEPT ![c] = NoLoop]
    /\ last' = NoRead
    /\ exit' = NoExit
    /\ UNCHANGED <<clients, server_threads, joins, reads>>
    /\ UNCHANGED relayVars
    /\ UNCHANGED ratchetVars
    /\ UNCHANGED chatVars

NetNext ==
    \/ \E c \in Conns : Accept(c)
    \/ \E c \in Conns : RecvEof(c)
    \/ \E c \in Conns : RecvError(c)
    \/ \E c \in Conns : RecvClosed(c)
    \/ \E c \in Conns, data \in RawInputs, ok \in BOOLEAN : RecvBytes(c, data, ok)
    \/ \E c \in Conns, ok \in BOOLEAN : BroadcastStep(c, ok)
    \/ \E c \in Conns : BroadcastRaise(c)
    \/ \E c \in Conns : BroadcastEnd(c)

ChatNext ==
    \/ Tick
    \/ Start
    \/ Stop
    \/ \E name \in Names, creator_id \in Users : CreateThread(name, FALSE, creator_id)
    \/ \E thread_id \in DOMAIN threads : SetCurrentThread(thread_id)
    \/ SweepLoop
    \/ SweepScan
    \/ \E thread_id \in sweeper.expired : SweepDelete(thread_id)
    \/ SweepSleep
    \/ \E thread_id \in {MAIN, ThreadId(1, 1, 0)}, expires_hours \in ExpiresHours :
          ConstructThread(thread_id, expires_hours)

ImageNext ==
    \/ Tick
    \/ Start
    \/ Stop
    \/ \E image_data \in ImageData, sender_id \in Users,
          thread_id \in DOMAIN threads, gap \in {0, 1} :
            AddImageMessage(image_data, sender_id, thread_id, gap)
    \/ \E image_id \in KnownImageIds : GetImage(image_id)
    \/ ImageSweepLoop
    \/ ImageSweepScan
    \/ \E image_id \in image_sweeper.expired : ImageSweepDelete(image_id)
    \/ ImageSweepSleep

Next ==
    \/ RatchetNext
    \/ ChatNext
    \/ ImageNext
    \/ NetNext

Spec == Init /\ [][Next]_vars

\* The ratchet engines alone.
SpecRatchet == Init /\ [][RatchetNext]_vars

\* One ChatManager, its threads, its cleanup worker, a ChatThread object a
\* caller constructs, and the clock.
SpecChat == Init /\ [][ChatNext]_vars

\* One ChatManager, the images of its ImageManager, the image cleanup worker
\* and the clock.
SpecImage == Init /\ [][ImageNext]_vars

\* A JOIN on a connection that names the user of JoinData(1) with another
\* username.
RenameEnvelope ==
    Obj([type |-> JOIN,
         data |-> Obj([user_id |-> <<"uid", 1>>, username |-> <<"name", 2>>,
                       public_key |-> <<"hex", 1>>])])

\* A MESSAGE whose data carries sender fields of the client's choosing.
SpoofedEnvelope ==
    Obj([type |-> MESSAGE,
         data |-> Obj([content |-> 2, thread_id |-> MAIN,
                       sender_id |-> <<"uid", 3>>,
                       sender_username |-> <<"name", 3>>])])

\* What the clients write while the relay is observed.
RelayInputs ==
    {JsonBytes(v) : v \in
        {Obj([type |-> JOIN, data |-> JoinData(1)]),
         RenameEnvelope,
         TextEnvelope,
         SpoofedEnvelope,
         Obj([type |-> IMAGE,
              data |-> Obj([image_data |-> 1, thread_id |-> MAIN,
                            sender_id |-> <<"uid", 3>>])])}}

\* The relay of the server: connections join, write MESSAGE and IMAGE
\* envelopes and leave while the loops of the workers run.
RelayNext ==
    \/ \E c \in Conns : Accept(c)
    \/ \E c \in Conns : RecvEof(c)
    \/ \E c \in Conns, data \in RelayInputs, ok \in BOOLEAN :
          RelayRecvBytes(c, data, ok)
    \/ \E c \in Conns, ok \in BOOLEAN : RelayBroadcastStep(c, ok)
    \/ \E c \in Conns : BroadcastRaise(c)
    \/ \E c \in Conns : BroadcastEnd(c)

\* One NetworkServer that is running and relays what joined clients write.
SpecRelay == Init /\ [][RelayNext]_vars

\* The image bytes callers store while the workers are observed.
SweepImageData == {1}

\* One ChatManager with registered handlers, its callers and both cleanup
\* workers.
ObserveNext ==
    \/ Tick
    \/ Start
    \/ \E name \in Names, creator_id \in Users :
          ObservedCreateThread(name, FALSE, creator_id)
    \/ \E image_data \in SweepImageData, sender_id \in Users :
          AddImageMessage(image_data, sender_id, MAIN, 0)
    \/ SweepLoop
    \/ SweepScan
    \/ \E thread_id \in sweeper.expired : ObservedSweepDelete(thread_id)
    \/ SweepSleep
    \/ ImageSweepLoop
    \/ ImageSweepScan
    \/ \E image_id \in image_sweeper.expired : ObservedImageSweepDelete(image_id)
    \/ ImageSweepSleep

SpecObserve == Init /\ [][ObserveNext]_vars

\* A caller thread in set_current_thread and add_message, statement by
\* statement, beside the thread cleanup worker.
RaceNext ==
    \/ Tick
    \/ Start
    \/ \E name \in Names, creator_id \in Users : CreateThread(name, FALSE, creator_id)
    \/ \E thread_id \in DOMAIN threads : SetCurrentTest(thread_id)
    \/ SetCurrentAssign
    \/ \E thread_id \in {None} \cup DOMAIN threads : AddMessageTest(thread_id)
    \/ \E sender_id \in Users : AddMessageAppend(<<"TEXT", 1>>, sender_id)
    \/ SweepLoop
    \/ SweepScan
    \/ \E thread_id \in sweeper.expired : SweepDelete(thread_id)
    \/ SweepSleep

\* One ChatManager whose callers run beside its thread cleanup worker.
SpecRace == Init /\ [][RaceNext]_vars

\* The texts callers add.
MessageContents == {<<"TEXT", 1>>}

\* The callers that add messages to the threads of one ChatManager.
MessagesNext ==
    \/ Tick
    \/ \E name \in Names, creator_id \in Users : CreateThread(name, FALSE, creator_id)
    \/ \E thread_id \in DOMAIN threads : SetCurrentThread(thread_id)
    \/ \E content \in MessageContents, sender_id \in Users,
          thread_id \in ThreadIdArgs :
            AddMessage(content, sender_id, thread_id)
    \/ \E image_data \in SweepImageData, sender_id \in Users,
          thread_id \in ThreadIdArgs :
            AddImageCall(image_data, sender_id, thread_id)

\* One ChatManager and the calls that add messages to its threads.
SpecMessages == Init /\ [][MessagesNext]_vars

\* One step of the thread cleanup worker.
SweepStep ==
    \/ SweepLoop
    \/ SweepScan
    \/ \E thread_id \in sweeper.expired : SweepDelete(thread_id)
    \/ SweepSleep

\* One step of the image cleanup worker.
ImageSweepStep ==
    \/ ImageSweepLoop
    \/ ImageSweepScan
    \/ \E image_id \in image_sweeper.expired : ImageSweepDelete(image_id)
    \/ ImageSweepSleep

\* Both cleanup workers with the callers that change the dicts they iterate.
SweepNext ==
    \/ Tick
    \/ Start
    \/ Stop
    \/ \E name \in Names, creator_id \in Users : CreateThread(name, FALSE, creator_id)
    \/ \E image_data \in SweepImageData, sender_id \in Users :
          AddImageMessage(image_data, sender_id, MAIN, 0)
    \/ SweepStep
    \/ ImageSweepStep

\* One ChatManager with both cleanup workers: a daemon thread that can take
\* a step is scheduled in the end, and time.sleep(60) returns.
SpecSweepFair ==
    /\ Init
    /\ [][SweepNext]_vars
    /\ WF_vars(SweepStep)
    /\ WF_vars(ImageSweepStep)

\* One NetworkServer that is running, the workers of its connections, and
\* what the clients write.
SpecNet == Init /\ [][NetNext]_vars

\* ================================================================ claims
\* The plaintext an input of decrypt_message carries, as the text the
\* CryptoManager of the sender was given.
TextOf(data) == Utf8Decode(FromHex(data.ciphertext)[2].pt)

\* The number of encrypt_message calls engine e has made for peer pk.
EncryptCalls(e, pk) ==
    Cardinality({b \in built : b.to = pk /\ b.md.public_key = get_public_key(e)})

\* What CryptoManager.decrypt_message of engine e returns for data now.
DecryptNow(e, data) ==
    CryptoManager_decrypt_message(e, ratchet[e], TRUE, data, Rnd(e, rndCtr[e] + 1))

\* C1: the first message engine A produces for a distinct engine B is
\* decrypted by B to the plaintext A encrypted: A's call returns a message,
\* and B's first decrypt_message of A's message number 1 returns the text.
C1_FirstMessageRoundTrip ==
    /\ (lastCall.op = "encrypt" /\ lastCall.first
            /\ lastCall.peer # get_public_key(lastCall.engine))
         => lastCall.raised = ""
    /\ (lastCall.op = "decrypt" /\ lastCall.legit /\ lastCall.first
            /\ lastCall.data.message_number = 1
            /\ lastCall.peer # get_public_key(lastCall.engine))
         => /\ lastCall.raised = ""
            /\ lastCall.plain = TextOf(lastCall.data)

\* C2: on one CryptoManager, decrypt_message(encrypt_message(m, own public
\* key)) returns m and neither call raises.
C2_LoopbackRoundTrip ==
    (lastCall.op = "encrypt" /\ lastCall.peer = get_public_key(lastCall.engine))
      => /\ lastCall.raised = ""
         /\ DecryptNow(lastCall.engine, lastCall.ret).raised = ""
         /\ DecryptNow(lastCall.engine, lastCall.ret).ret = lastCall.text

\* C3: the N-th message (N >= 2) of engine A for a distinct engine B, handed
\* to B after messages 1..N-1, is decrypted by B to its plaintext.
C3_NthMessageDecrypts ==
    (lastCall.op = "decrypt" /\ lastCall.legit
        /\ lastCall.peer # get_public_key(lastCall.engine)
        /\ lastCall.data.message_number >= 2
        /\ lastCall.prior = 1..(lastCall.data.message_number - 1))
      => /\ lastCall.raised = ""
         /\ lastCall.plain = TextOf(lastCall.data)

\* C4: the k-th encrypt_message call of an engine for a peer returns a
\* message whose message_number is k, whatever other calls were made between.
C4_MessageNumberPerCall ==
    lastCall.op = "encrypt"
      => /\ lastCall.raised = ""
         /\ lastCall.ret.message_number = EncryptCalls(lastCall.engine, lastCall.peer)

\* C5: when messages n < m of one sender arrive in the order m, n, both are
\* decrypted to their plaintexts: the decrypt of m caches the keys of the
\* numbers it skipped, and the decrypt of n succeeds.
C5_OutOfOrderDecrypts ==
    LET n == lastCall.data.message_number
        skipped == (1..(n - 1)) \ lastCall.prior
        cache == ratchet[lastCall.engine].skip_message_keys[lastCall.peer]
        late == n \notin lastCall.prior /\ \E m \in lastCall.prior : m > n
    IN (lastCall.op = "decrypt" /\ lastCall.legit
            /\ lastCall.peer # get_public_key(lastCall.engine)
            /\ (skipped # {} \/ late))
         => /\ lastCall.raised = ""
            /\ lastCall.plain = TextOf(lastCall.data)
            /\ \A k \in skipped : \E entry \in cache : entry[1] = k

\* C6: a decrypt_message call on an input the same engine has already
\* decrypted successfully fails with a decryption error.
C6_ReplayFails ==
    (lastCall.op = "decrypt" /\ lastCall.replay) => lastCall.raised = "ValueError"

\* An input was decrypted, was handed to the same engine again, and the
\* second call raised.
C6_Witness ==
    /\ lastCall.op = "decrypt"
    /\ lastCall.replay
    /\ lastCall.data \in decrypted[lastCall.engine]
    /\ lastCall.raised = "ValueError"

\* C7: the thread "main" is in the registry and its expires_at is None, in
\* every reachable state.
C7_MainAlwaysPresent ==
    /\ MAIN \in DOMAIN threads
    /\ threads[MAIN].expires_at = None

\* The sweeper has removed a thread, long after main was created.
C7_Witness ==
    /\ removed # {}
    /\ now > threads[MAIN].created_at + timedelta_hours(DefaultExpiresHours)
    /\ MAIN \in DOMAIN threads

\* C8: a ChatThread constructed with expires_hours = 0 has expires_at None,
\* is_expired() is false at every later time, and the scan of the sweeper
\* does not collect it from a registry that holds it.
C8_NoTTLNeverExpires ==
    (thr.made /\ thr.hours = 0)
      => /\ thr.obj.expires_at = None
         /\ ~is_expired(thr.obj, now)
         /\ ExpiredThreads([id \in {thr.obj.thread_id} |-> thr.obj], now) = {}

\* A thread other than main was constructed with expires_hours = 0, and
\* more than the default lifetime has passed since.
C8_Witness ==
    /\ thr.made
    /\ thr.hours = 0
    /\ thr.obj.thread_id # MAIN
    /\ now > thr.obj.created_at + timedelta_hours(DefaultExpiresHours)

\* C9: a thread constructed with expires_hours > 0 (main has no lifetime)
\* is expired exactly when the clock is past created_at + expires_hours, and
\* a thread made by create_thread has a lifetime of 12 hours.
C9_ExpiredIffPastTTL ==
    /\ (thr.made /\ thr.hours > 0 /\ thr.obj.thread_id # MAIN)
         => (is_expired(thr.obj, now)
               <=> now > thr.obj.created_at + timedelta_hours(thr.hours))
    /\ \A id \in (DOMAIN threads) \ {MAIN} :
         /\ threads[id].expires_at
              = Some(threads[id].created_at + timedelta_hours(12))
         /\ is_expired(threads[id], now)
              <=> now > threads[id].created_at + timedelta_hours(12)

\* The clock reads exactly created_at + 12 hours for a thread create_thread
\* made, which is_expired() reports as not expired.
C9_Witness ==
    \E id \in (DOMAIN threads) \ {MAIN} :
        /\ now = threads[id].created_at + timedelta_hours(12)
        /\ ~is_expired(threads[id], now)

\* C10 as claimed: get_image returns the stored bytes at every time before
\* created_at + 30 minutes and None at every time at or after it.
C10_ImageWindow ==
    (lastGet.called /\ lastGet.known)
      => /\ lastGet.early => lastGet.ret = lastGet.data
         /\ ~lastGet.early => lastGet.ret = None

\* C10 as amended: for a stored image, get_image returns None at every time
\* after its expires_at and whenever the image is no longer registered, and
\* returns the stored bytes at every time up to and including expires_at
\* while the image is registered.
C10_ImageWindowAmended ==
    (lastGet.called /\ lastGet.known)
      => /\ lastGet.past => lastGet.ret = None
         /\ ~lastGet.held => lastGet.ret = None
         /\ (lastGet.held /\ ~lastGet.past) => lastGet.ret = lastGet.data

\* get_image was called at the instant created_at + 30 minutes, or later but
\* not after expires_at, and returned the bytes.
C10_Witness ==
    /\ lastGet.called
    /\ lastGet.known
    /\ lastGet.held
    /\ ~lastGet.early
    /\ ~lastGet.past
    /\ lastGet.ret = lastGet.data

C13_DistinctThreadIds ==
    (lastCreate.called /\ lastCreate.repeat) =>
        /\ lastCreate.ret # lastCreate.prior
        /\ lastCreate.ret \notin lastCreate.before

\* The sockets a broadcast loop sent to, as a set.
Targets(loop) == {loop.sent[i][1] : i \in 1..Len(loop.sent)}

\* The type of the envelope a broadcast loop sends.
RelayedType(loop) == loop.response[2][2].type

\* C12: a MESSAGE broadcast that ran to its end over a registry holding the
\* same connections from its start to its end made exactly one send of a
\* MESSAGE envelope to every registered connection other than the sender,
\* and none to the sender.
C12_MessageToOthersOnce ==
    (relayed.conn # 0 /\ relayed.loop.type = MESSAGE
       /\ relayed.loop.keys = relayed.registry) =>
        /\ Targets(relayed.loop) = relayed.registry \ {relayed.conn}
        /\ Len(relayed.loop.sent) = Cardinality(relayed.registry) - 1
        /\ RelayedType(relayed.loop) = MESSAGE

\* C12: three joined connections are registered, and a MESSAGE of the first
\* has been sent to the other two with no send failing.
C12_Witness ==
    /\ relayed.conn = 1
    /\ relayed.loop.type = MESSAGE
    /\ relayed.registry = Conns
    /\ relayed.loop.keys = Conns
    /\ \A k \in Conns : HasJoined(clients, k)
    /\ relayed.loop.sent = <<(<<2, TRUE>>), (<<3, TRUE>>)>>

\* The bytes are JSON for an object that has the keys type and data.
HasRequiredFields(data) ==
    /\ data[1] = "json"
    /\ IsDict(data[2])
    /\ {"type", "data"} \subseteq DOMAIN data[2][2]

\* C14: parse_message returns an ERROR envelope for bytes that are not JSON
\* or whose JSON value lacks type or data, and an envelope of one of the ten
\* message types for all other bytes.
C14_ParseErrorOrRecognized ==
    (last.conn # 0) =>
        IF HasRequiredFields(last.raw)
        THEN IsDict(last.parsed) /\ TypeOf(last.parsed) \in MessageTypes
        ELSE IsDict(last.parsed) /\ TypeOf(last.parsed) = ERROR

C16_GoneIsUnregistered ==
    /\ Gone \cap DOMAIN clients = {}
    /\ \A c \in Conns : Targets(bcast[c]) \cap bcast[c].gone = {}
    /\ Targets(relayed.loop) \cap relayed.loop.gone = {}

\* C16: a broadcast that started after a connection had left has run to its
\* end and has sent to a connection still registered.
C16_Witness ==
    /\ relayed.conn # 0
    /\ relayed.loop.gone # {}
    /\ relayed.loop.gone \subseteq Gone
    /\ relayed.loop.sent # <<>>

\* C17: when the worker of a connection with no user_id bound has processed
\* a MESSAGE, IMAGE or CREATE_THREAD envelope, the handler has returned
\* without entering a broadcast loop, so that nothing is sent to any
\* connection, and the threads of the server are what they were.
C17_UnjoinedRequestDropped ==
    (last.conn # 0 /\ last.type \in {MESSAGE, IMAGE, CREATE_THREAD}
       /\ ~last.joined) =>
        /\ last.threads_kept
        /\ last.raised = ""
        /\ bcast[last.conn] = NoLoop
        /\ handler[last.conn].pc = "recv"

\* C17: a connection that has not joined has sent CREATE_THREAD while
\* another connection is registered.
C17_Witness ==
    /\ last.conn # 0
    /\ last.type = CREATE_THREAD
    /\ ~last.joined
    /\ last.threads_kept
    /\ DOMAIN server_threads = {MAIN}
    /\ Cardinality(DOMAIN clients) >= 2

\* C18: a send that raises inside a broadcast loop ends neither the loop nor
\* the sender's worker: the sender of a running loop is registered, no
\* worker leaves because of such a send, and a loop that ran to its end
\* over a registry holding the same connections throughout made a send to
\* every registered connection other than the sender, whichever sends
\* failed.
C18_SendFailureIsolated ==
    /\ exit.why # "SendError"
    /\ \A c \in Conns : handler[c].pc = "bcast" => c \in DOMAIN clients
    /\ (relayed.conn # 0 /\ relayed.loop.keys = relayed.registry) =>
          /\ relayed.registry \ {relayed.conn} \subseteq Targets(relayed.loop)
          /\ relayed.conn \in DOMAIN clients

\* C18: in a broadcast that ran to its end the first send failed and a send
\* to another connection followed it.
C18_Witness ==
    /\ relayed.conn # 0
    /\ relayed.conn \in DOMAIN clients
    /\ Len(relayed.loop.sent) = 2
    /\ ~relayed.loop.sent[1][2]
    /\ relayed.loop.sent[2][2]
    /\ relayed.loop.sent[1][1] # relayed.loop.sent[2][1]

\* C19: no broadcast loop is abandoned by its worker, and a loop that ran to
\* its end sent to the connections that were registered when it started
\* (other than the sender, where the loop skips it) and to no others,
\* whatever other workers did to the registry meanwhile.
C19_BroadcastOverSnapshot ==
    /\ \A c \in Conns : handler[c].pc = "done" => bcast[c] = NoLoop
    /\ relayed.conn # 0 =>
          /\ relayed.loop.keys \ {relayed.conn} \subseteq Targets(relayed.loop)
          /\ Targets(relayed.loop) \subseteq relayed.loop.keys

\* The reasons for a worker to leave _handle_client that lie in its own
\* connection: its read ended or raised, its input could not be handled, or
\* the send of its welcome raised.
OwnCauses == {"eof", "error", "closed", "AttributeError", "OSError"}

\* C20: a worker leaves _handle_client, and its connection the registry,
\* only for a cause in its own connection; never because another connection
\* was registered or removed while it was broadcasting.
C20_WorkerLeavesForOwnCause ==
    (exit.conn # 0) => exit.why \in OwnCauses

\* The step is a decrypt_message call of engine e that raised.
FailedDecryptStep(e) ==
    /\ calls' = calls + 1
    /\ lastCall'.op \in {"decrypt", "malformed"}
    /\ lastCall'.engine = e
    /\ lastCall'.raised # ""

\* C22: a decrypt_message call that raises leaves the root key, the chain
\* keys, the message numbers and the skipped keys of its engine as they
\* were before the call.
C22_FailedDecryptKeepsState ==
    [][\A e \in Engines : FailedDecryptStep(e) => ratchet'[e] = ratchet[e]]_vars

\* The step is an encrypt_message call of engine e for peer pk.
EncryptStep(e, pk) ==
    /\ calls' = calls + 1
    /\ lastCall'.op = "encrypt"
    /\ lastCall'.engine = e
    /\ lastCall'.peer = pk

\* The key of the ciphertext of a dict encrypt_message built.
MessageKeyOf(message_data) == FromHex(message_data.ciphertext)[2].key

\* C23: an encrypt_message call for a peer with a sending chain key takes
\* its message key from kdf_chain_key of that chain key, and leaves a chain
\* key other than the one it found.
C23_ChainKeyAdvances ==
    [][\A e \in Engines, pk \in PubKeys :
          (EncryptStep(e, pk) /\ HasSession(ratchet[e], pk)) =>
              /\ \A b \in built' \ built :
                    MessageKeyOf(b.md)
                      = kdf_chain_key(ratchet[e].chain_keys[pk],
                                      perform_dh(e, pk))[2]
              /\ ratchet'[e].chain_keys[pk] # ratchet[e].chain_keys[pk]]_vars

\* The ids the step takes out of ChatManager.threads.
Leaving == (DOMAIN threads) \ (DOMAIN threads')

\* C29: a step that takes a thread out of ChatManager.threads takes out a
\* thread whose expires_at is set and earlier than the clock reading of that
\* moment.
C29_RemovedOnlyWhenExpired ==
    [][\A id \in Leaving :
          /\ threads[id].expires_at # None
          /\ threads[id].expires_at[1] < now]_vars

\* The sweeper has just removed an expired thread while an unexpired one is
\* in the registry with main.
C29_Witness ==
    /\ lastDelete.called
    /\ lastDelete.present
    /\ lastDelete.at = now
    /\ lastDelete.thread_id \notin DOMAIN threads
    /\ \E id \in DOMAIN threads : id # MAIN /\ ~is_expired(threads[id], now)

\* C30: a step that takes the thread current_thread_id names out of the
\* registry leaves current_thread_id = "main"; a step that takes out another
\* thread leaves current_thread_id as it was.
C30_CurrentFallsBackToMain ==
    [][Leaving # {} =>
          current_thread_id' = IF current_thread_id \in Leaving THEN MAIN
                               ELSE current_thread_id]_vars

\* The sweeper has just removed the thread that was the current one.
C30_Witness ==
    /\ lastDelete.called
    /\ lastDelete.present
    /\ lastDelete.was_current
    /\ lastDelete.thread_id \notin DOMAIN threads
    /\ current_thread_id = MAIN

\* The sweeper has just removed a thread while another one was current.
C30_WitnessOther ==
    /\ lastDelete.called
    /\ lastDelete.present
    /\ ~lastDelete.was_current
    /\ lastDelete.thread_id \notin DOMAIN threads
    /\ current_thread_id \notin {MAIN, lastDelete.thread_id}

\* The ids create_thread can return.
AllThreadIds ==
    {ThreadId(name, creator_id, t) :
        name \in Names, creator_id \in Users, t \in 0..MaxCreateTime}

\* The ids store_image can return.
AllImageIds ==
    {ImageId(image_data, sender_id, t) :
        image_data \in SweepImageData, sender_id \in Users,
        t \in 0..MaxCreateTime}

\* Thread id is in the registry of a running manager, not main, and expired.
ExpiredThreadWaits(id) ==
    /\ running
    /\ id # MAIN
    /\ id \in DOMAIN threads
    /\ is_expired(threads[id], now)

\* Image id is in the registry of a running image manager and expired.
ExpiredImageWaits(id) ==
    /\ image_running
    /\ id \in DOMAIN images
    /\ now > images[id].expires_at

\* C28: while the manager runs, an expired thread other than main leaves
\* the registry in the end, and so does an expired image, whatever the
\* callers do to the dicts while the workers scan them.
C28_ExpiredEventuallySwept ==
    /\ \A id \in AllThreadIds :
          ExpiredThreadWaits(id) ~> (id \notin DOMAIN threads \/ ~running)
    /\ \A id \in AllImageIds :
          ExpiredImageWaits(id) ~> (id \notin DOMAIN images \/ ~image_running)

\* A scan of the thread worker was cut short by a thread created during it
\* while an expired thread waits in the registry.
C28_Witness ==
    /\ sweeper.pc = "scan"
    /\ sweeper.changed
    /\ \E id \in AllThreadIds : ExpiredThreadWaits(id)

\* The envelopes whose last byte the read brought: the one a read of a
\* whole write carries, both of a read that joins two writes, and the one
\* the read of a second part completes after the read of its first part.
Completed(read) ==
    IF read.raw[1] = "json" /\ IsDict(read.raw[2]) THEN {read.raw[2]}
    ELSE IF read.raw[1] = "coalesced" THEN {read.raw[2], read.raw[3]}
    ELSE IF read.raw[1] = "fragment" /\ read.completes THEN {read.raw[2]}
    ELSE {}

\* C21: the envelopes a read completes are the ones the worker hands to
\* _process_message after it: each of them, once, and nothing else, also
\* when the read joins two writes or ends a write the read before began.
C21_EveryEnvelopeProcessedOnce ==
    (last.conn # 0 /\ Completed(last) # {}) => Completed(last) = {last.parsed}

\* C24: a MESSAGE, IMAGE or CREATE_THREAD broadcast that ran to its end
\* over a registry holding the same connections from its start to its end
\* made its sends to every registered connection other than the originating
\* one, and none to the originating one.
C24_NoCopyToOriginator ==
    (relayed.conn # 0 /\ relayed.loop.type \in {MESSAGE, IMAGE, CREATE_THREAD}
       /\ relayed.loop.keys = relayed.registry) =>
        Targets(relayed.loop) = relayed.registry \ {relayed.conn}

\* The bytes are not JSON, or JSON for a value that is not an object, or
\* for an object whose data is not an object.
Malformed(data) ==
    \/ data[1] = "junk"
    \/ data[1] = "json" /\ ~IsDict(data[2])
    \/ data[1] = "json" /\ IsDict(data[2]) /\ "data" \in DOMAIN data[2][2]
          /\ ~IsDict(data[2][2].data)

\* C27: after a read of a malformed envelope the connection is registered
\* and its worker is back at recv on an open socket.
C27_MalformedIsNonFatal ==
    (last.conn # 0 /\ Malformed(last.raw)) =>
        /\ last.raised = ""
        /\ last.conn \in DOMAIN clients
        /\ handler[last.conn] = [pc |-> "recv", open |-> TRUE]

\* The data of the envelope a broadcast loop sends.
RelayedData(loop) == loop.response[2][2].data[2]

\* The sender fields of the envelope of loop are the ones the data of the
\* last JOIN of connection c carried.
SenderIsBound(c, loop) ==
    /\ joins[c] # NotAnObject
    /\ RelayedData(loop).sender_id = Get(joins[c][2], "user_id", None)
    /\ RelayedData(loop).sender_username = Get(joins[c][2], "username", None)

\* C25: the sender_id and sender_username of the MESSAGE or IMAGE envelope
\* a worker is sending on, or has just sent on, are the user_id and username
\* of the data of the last JOIN read on its connection, whatever sender
\* fields the data of the inbound envelope carried.
C25_SenderFromJoinBinding ==
    /\ \A c \in Conns :
          (handler[c].pc = "bcast" /\ bcast[c].type \in {MESSAGE, IMAGE}) =>
              SenderIsBound(c, bcast[c])
    /\ (relayed.conn # 0 /\ relayed.loop.type \in {MESSAGE, IMAGE}) =>
          SenderIsBound(relayed.conn, relayed.loop)

\* C25: a connection bound to user 1 under the second username has written
\* a MESSAGE whose data names another sender, and the worker is sending it
\* on under the bound identity.
C25_Witness ==
    /\ last.conn # 0
    /\ last.raw = JsonBytes(SpoofedEnvelope)
    /\ handler[last.conn].pc = "bcast"
    /\ joins[last.conn] = RenameEnvelope[2].data
    /\ RelayedData(bcast[last.conn]).sender_id = <<"uid", 1>>
    /\ RelayedData(bcast[last.conn]).sender_username = <<"name", 2>>
    /\ Cardinality(DOMAIN clients) >= 2

\* Sequence a is what remains of sequence b after leaving out some of its
\* elements.
RECURSIVE IsSubsequence(_, _)
IsSubsequence(a, b) ==
    IF a = <<>> THEN TRUE
    ELSE IF b = <<>> THEN FALSE
    ELSE IF Head(a) = Head(b) THEN IsSubsequence(Tail(a), Tail(b))
    ELSE IsSubsequence(a, Tail(b))

\* C26: the contents of the MESSAGE envelopes sent on to a recipient for a
\* sender are, in their order, contents of the MESSAGE envelopes read from
\* that sender, in the order of the reads.
C26_PerSenderFifo ==
    \A sender \in Conns, recipient \in Conns :
        IsSubsequence(outbox[sender][recipient], inbox[sender])

\* C26: a joined sender has written two MESSAGE envelopes with different
\* contents, and a recipient registered throughout was sent both.
C26_Witness ==
    /\ inbox[1] = <<1, 2>>
    /\ outbox[1][2] = <<1, 2>>
    /\ {1, 2} \subseteq DOMAIN clients

\* The step is an add_message or add_image_message call.
AddStep == lastAdd'.n = lastAdd.n + 1

\* C32: an add_message or add_image_message call that returns a message
\* leaves the messages of the thread it names as they were with that message
\* appended, and the messages of every other thread as they were; a call
\* that returns None leaves the messages of every thread as they were.
C32_MessagesAppendOnly ==
    [][AddStep =>
        /\ DOMAIN threads' = DOMAIN threads
        /\ \A id \in DOMAIN threads :
              threads'[id].messages =
                IF lastAdd'.ret # None /\ id = lastAdd'.target
                THEN Append(threads[id].messages, lastAdd'.ret[1])
                ELSE threads[id].messages]_vars

\* C32: a thread holds a text message followed by an image message of a
\* later call.
C32_Witness ==
    /\ lastAdd.n >= 2
    /\ lastAdd.op = "add_image_message"
    /\ lastAdd.ret # None
    /\ Len(threads[lastAdd.target].messages) = 2
    /\ threads[lastAdd.target].messages[1].message_type = "text"
    /\ threads[lastAdd.target].messages[2] = lastAdd.ret[1]

\* C35: an add_message or add_image_message call for a thread id that is
\* not in the registry returns None, calls no message handler and leaves
\* the threads, the images and the files as they were.
C35_MissingThreadChangesNothing ==
    [][(AddStep /\ lastAdd'.missing) =>
        /\ lastAdd'.ret = None
        /\ ~lastAdd'.notified
        /\ threads' = threads
        /\ images' = images
        /\ files' = files]_vars

\* C35: add_image_message has been called for a thread id that is not in
\* the registry, after a call that added a message.
C35_Witness ==
    /\ lastAdd.n >= 2
    /\ lastAdd.op = "add_image_message"
    /\ lastAdd.missing
    /\ lastAdd.ret = None
    /\ \E id \in DOMAIN threads : threads[id].messages # <<>>
    /\ DOMAIN images = {}

\* C33: current_thread_id names a thread of the registry.
C33_CurrentThreadIsRegistered == current_thread_id \in DOMAIN threads

\* C34: an add_message call that ran beside the sweeper raised nothing, and
\* called the message handlers only for a message it appended.
C34_AddBesideSweeperNeverRaises ==
    /\ lastRace.raised = ""
    /\ lastRace.notified => lastRace.appended

\* C31: every registered handler has been called once with thread_created
\* for each thread created, once with thread_deleted for each thread
\* removed and once with image_deleted for each image removed, the handler
\* that raises and the one called after it included.
C31_OneEventPerObserver ==
    \A h \in ThreadHandlers :
        /\ events[h].thread_created = happened.thread_created
        /\ events[h].thread_deleted = happened.thread_deleted
        /\ events[h].image_deleted = happened.image_deleted

\* ------------------------------------------------- clients and server
\* The operations of the chat window the clients make in one run.
MaxUiOps == 3

\* What the clock of a machine reads when create_thread asks it for the
\* time; the machines' clocks are not synchronised.
ClockReadings == 0 .. MaxCreateTime

\* The clients whose user works the chat window, once all three clients
\* have joined; the others only receive.
Typists == {1}

\* The texts typed into the chat window.
UiTexts == {<<"TEXT", 1>>}

\* ChatManager.create_thread(name, is_private, creator_id) at clock reading
\* t: the threads after it.
create_thread(thrs, name, is_private, creator_id, t) ==
    With(thrs, ThreadId(name, creator_id, t),
         ChatThread(ThreadId(name, creator_id, t), name, is_private,
                    creator_id, DefaultExpiresHours, t))

\* ChatManager.set_current_thread(thread_id)
set_current_thread(peer, thread_id) ==
    IF thread_id \in DOMAIN peer.threads
    THEN [peer EXCEPT !.current_thread_id = thread_id]
    ELSE peer

\* data.get('content', '') of a relayed MESSAGE; the welcome message of
\* _handle_join has no content.
ContentField(data) ==
    IF "payload" \in DOMAIN data[2] /\ data[2].payload[1] = "content"
    THEN data[2].payload[2]
    ELSE EmptyContent

\* LuckyOnesClient._on_network_message: the ChatManager after it, and
\* whether add_message returned None.
on_network_message(peer, message_data, t) ==
    LET data == Get(message_data[2], "data", Obj(<<>>))
        out == add_message(peer, ContentField(data),
                           Get(data[2], "sender_id", EmptyString),
                           Get(data[2], "sender_username", Unknown),
                           Get(data[2], "thread_id", MAIN), "text", t)
    IN IF ~IsDict(data) THEN [peer |-> peer, dropped |-> FALSE]
       ELSE [peer |-> [peer EXCEPT !.threads = out.threads],
             dropped |-> out.ret = None]

\* LuckyOnesClient._on_network_thread: create_thread is called with the
\* name, the privacy flag and the creator_id of the data ('' when it has
\* none); the thread_id of the data is only tested for being non-empty.
on_network_thread(peer, message_data, t) ==
    LET data == Get(message_data[2], "data", Obj(<<>>))
        thread_id == Get(data[2], "thread_id", EmptyString)
        thread_name == Get(data[2], "thread_name", EmptyName)
        is_private == Get(data[2], "is_private", FALSE)
        creator_id == Get(data[2], "creator_id", EmptyString)
    IN IF ~IsDict(data) THEN peer
       ELSE IF thread_id # EmptyString /\ thread_name # EmptyName
       THEN [peer EXCEPT !.threads = create_thread(@, thread_name, is_private,
                                                   creator_id, t)]
       ELSE peer

\* NetworkClient._receive_loop: the handler registered for the type of the
\* parsed message is called; a type without a handler does nothing.
receive(peer, raw, t) ==
    LET message == parse_message(raw)
    IN IF ~IsDict(message) THEN [peer |-> peer, dropped |-> FALSE]
       ELSE IF TypeOf(message) = MESSAGE THEN on_network_message(peer, message, t)
       ELSE IF TypeOf(message) = CREATE_THREAD
       THEN [peer |-> on_network_thread(peer, message, t), dropped |-> FALSE]
       ELSE [peer |-> peer, dropped |-> FALSE]

\* NetworkClient.connect: the JOIN it sends
connect_message(k) == create_message(JOIN, JoinData(k), UserId(k))

\* NetworkClient.send_message: the MESSAGE it sends (the timestamp field is
\* left out)
send_message(content, thread_id, user_id) ==
    create_message(MESSAGE, Obj([content |-> content, thread_id |-> thread_id]),
                   user_id)

\* NetworkClient.create_thread: the CREATE_THREAD it sends
create_thread_message(thread_name, is_private, user_id) ==
    create_message(CREATE_THREAD,
                   Obj([thread_name |-> thread_name, is_private |-> is_private,
                        creator_id |-> user_id]),
                   user_id)

\* NetworkServer._handle_join: the welcome MESSAGE it sends to the client
welcome_message(client_info) ==
    create_message(MESSAGE,
                   Obj([message |-> <<"Welcome", client_info.username>>,
                        thread_id |-> MAIN]),
                   <<"uid", 0>>)

\* The sockets a handler's loop over self.clients.keys() sends to.
Recipients(loop, client_socket) ==
    {other_socket \in loop.keys :
        ~(SkipsSender(loop.type) /\ other_socket = client_socket)}

\* All three clients are bound to a user id at the server.
AllJoined == \A k \in Conns : HasJoined(clients, k)

\* LuckyOnesClient._on_connect with NetworkClient.connect: the socket
\* connects, the server's accept loop starts _handle_client, which registers
\* the connection; the client sends JOIN, starts its receive loop and shows
\* the chat window.
PeerConnect(k) ==
    /\ ~peers[k].shown
    /\ peers' = [peers EXCEPT ![k].shown = TRUE, ![k].connected = TRUE]
    /\ clients' = With(clients, k, NewClientInfo)
    /\ uplink' = [uplink EXCEPT ![k] = Append(@, connect_message(k))]
    /\ UNCHANGED <<downlink, ui>>
    /\ UNCHANGED <<server_threads, handler, bcast, last, joins, relayed, exit,
                   reads, relayVars>>
    /\ UNCHANGED ratchetVars
    /\ UNCHANGED obsVars
    /\ UNCHANGED auxVars
    /\ UNCHANGED <<now, threads, current_thread_id, running, sweeper, images,
                   files, image_running, image_sweeper, removed, stored,
                   lastGet, thr, lastCreate, lastDelete>>

\* NetworkServer._handle_client: one recv with _process_message at clock
\* reading t, every send of the handler succeeding.
ServerReceive(k, t) ==
    LET message == parse_message(Head(uplink[k]))
        out == process_message(clients, server_threads, k, message, t, TRUE, {})
        to == IF out.loop = NoLoop THEN {} ELSE Recipients(out.loop, k)
    IN /\ k \in DOMAIN clients
       /\ uplink[k] # <<>>
       /\ uplink' = [uplink EXCEPT ![k] = Tail(@)]
       /\ clients' = out.clients
       /\ server_threads' = out.threads
       /\ downlink' =
            [o \in Conns |->
               IF out.bound /\ o = k
               THEN Append(downlink[o], welcome_message(out.clients[k]))
               ELSE IF o \in to THEN Append(downlink[o], out.loop.response)
               ELSE downlink[o]]
       /\ ui' = [ui EXCEPT
                   !.announced =
                       IF out.loop # NoLoop /\ out.loop.type = CREATE_THREAD
                       THEN @ \cup {<<o, tid>> :
                                      o \in to \ {k},
                                      tid \in (DOMAIN out.threads)
                                              \ (DOMAIN server_threads)}
                       ELSE @]
       /\ UNCHANGED peers
       /\ UNCHANGED <<handler, bcast, last, joins, relayed, exit, reads,
                      relayVars>>
       /\ UNCHANGED ratchetVars
       /\ UNCHANGED obsVars
       /\ UNCHANGED auxVars
       /\ UNCHANGED <<now, threads, current_thread_id, running, sweeper, images,
                      files, image_running, image_sweeper, removed, stored,
                      lastGet, thr, lastCreate, lastDelete>>

\* NetworkClient._receive_loop: one recv that returns what the server sent,
\* and the handler call.
PeerReceive(k) ==
    LET out == receive(peers[k], Head(downlink[k]), now)
    IN /\ peers[k].connected
       /\ downlink[k] # <<>>
       /\ downlink' = [downlink EXCEPT ![k] = Tail(@)]
       /\ peers' = [peers EXCEPT ![k] = out.peer]
       /\ ui' = [ui EXCEPT !.dropped[k] = IF out.dropped THEN @ + 1 ELSE @]
       /\ UNCHANGED uplink
       /\ UNCHANGED netVars
       /\ UNCHANGED ratchetVars
       /\ UNCHANGED obsVars
       /\ UNCHANGED auxVars
       /\ UNCHANGED <<now, threads, current_thread_id, running, sweeper, images,
                      files, image_running, image_sweeper, removed, stored,
                      lastGet, thr, lastCreate, lastDelete>>

\* NetworkClient._receive_loop: the socket has the timeout connect() set
\* (settimeout(10)); a recv that gets no data for ten seconds raises
\* socket.timeout, which the loop's `except Exception` prints before it
\* breaks and clears self.connected.
PeerTimeout(k) ==
    /\ peers[k].connected
    /\ downlink[k] = <<>>
    /\ peers' = [peers EXCEPT ![k].connected = FALSE]
    /\ ui' = [ui EXCEPT !.timeouts = 1]
    /\ UNCHANGED <<uplink, downlink>>
    /\ UNCHANGED netVars
    /\ UNCHANGED ratchetVars
    /\ UNCHANGED obsVars
    /\ UNCHANGED auxVars
    /\ UNCHANGED <<now, threads, current_thread_id, running, sweeper, images,
                   files, image_running, image_sweeper, removed, stored,
                   lastGet, thr, lastCreate, lastDelete>>

\* ChatWindow._on_send_message: add_message to the
\* current thread, then network_client.send_message with the id of
\* get_current_thread(), which returns False at once when the client is not
\* connected.
UiSendMessage(k, message) ==
    LET out == add_message(peers[k], message, UserId(k), Username(k), None,
                           "text", now)
        current == peers[k].current_thread_id
    IN /\ peers[k].shown
       /\ AllJoined
       /\ ui.ops < MaxUiOps
       /\ peers' = [peers EXCEPT ![k].threads = out.threads]
       /\ uplink' = IF current \in DOMAIN peers[k].threads /\ peers[k].connected
                    THEN [uplink EXCEPT
                            ![k] = Append(@, send_message(message, current,
                                                          UserId(k)))]
                    ELSE uplink
       /\ ui' = [ui EXCEPT !.ops = @ + 1,
                           !.sent[k] = IF current = MAIN THEN @ + 1 ELSE @]
       /\ UNCHANGED downlink
       /\ UNCHANGED netVars
       /\ UNCHANGED ratchetVars
       /\ UNCHANGED obsVars
       /\ UNCHANGED auxVars
       /\ UNCHANGED <<now, threads, current_thread_id, running, sweeper, images,
                      files, image_running, image_sweeper, removed, stored,
                      lastGet, thr, lastCreate, lastDelete>>

\* ChatWindow._create_thread_dialog.create_thread at clock reading t:
\* chat_manager.create_thread with the user's id, then
\* network_client.create_thread.
UiCreateThread(k, thread_name, t) ==
    /\ peers[k].shown
    /\ AllJoined
    /\ ui.ops < MaxUiOps
    /\ peers' = [peers EXCEPT
                   ![k].threads = create_thread(@, thread_name, FALSE,
                                                UserId(k), t)]
    /\ uplink' = IF peers[k].connected
                 THEN [uplink EXCEPT
                         ![k] = Append(@, create_thread_message(thread_name, FALSE,
                                                                UserId(k)))]
                 ELSE uplink
    /\ ui' = [ui EXCEPT !.ops = @ + 1, !.created[k] = @ + 1]
    /\ UNCHANGED downlink
    /\ UNCHANGED netVars
    /\ UNCHANGED ratchetVars
    /\ UNCHANGED obsVars
    /\ UNCHANGED auxVars
    /\ UNCHANGED <<now, threads, current_thread_id, running, sweeper, images,
                   files, image_running, image_sweeper, removed, stored,
                   lastGet, thr, lastCreate, lastDelete>>

\* ChatWindow._on_thread_select: set_current_thread with a listed thread
UiSelectThread(k, thread_id) ==
    /\ peers[k].shown
    /\ AllJoined
    /\ ui.ops < MaxUiOps
    /\ thread_id # peers[k].current_thread_id
    /\ peers' = [peers EXCEPT ![k] = set_current_thread(@, thread_id)]
    /\ ui' = [ui EXCEPT !.ops = @ + 1]
    /\ UNCHANGED <<uplink, downlink>>
    /\ UNCHANGED netVars
    /\ UNCHANGED ratchetVars
    /\ UNCHANGED obsVars
    /\ UNCHANGED auxVars
    /\ UNCHANGED <<now, threads, current_thread_id, running, sweeper, images,
                   files, image_running, image_sweeper, removed, stored,
                   lastGet, thr, lastCreate, lastDelete>>

PeerNext ==
    \/ \E k \in Conns : PeerConnect(k)
    \/ \E k \in Conns, t \in ClockReadings : ServerReceive(k, t)
    \/ \E k \in Conns : PeerReceive(k)
    \/ \E k \in Conns : PeerTimeout(k)
    \/ \E k \in Typists, message \in UiTexts : UiSendMessage(k, message)
    \/ \E k \in Typists, thread_name \in Names, t \in ClockReadings :
          UiCreateThread(k, thread_name, t)
    \/ \E k \in Typists : \E thread_id \in DOMAIN peers[k].threads :
          UiSelectThread(k, thread_id)

\* Three client programs and the server they connect to.
SpecPeers == Init /\ [][PeerNext]_vars

\* Client k has read everything the server sent to it.
CaughtUp(k) == peers[k].connected /\ downlink[k] = <<>>

\* C36: a client that has read everything sent to it holds every thread the
\* server announced to it under the announced thread id, and add_message
\* returned None for no message relayed to it.
C36_AnnouncedThreadIsHeld ==
    \A k \in Conns :
        CaughtUp(k) =>
            /\ \A a \in ui.announced :
                  a[1] = k => a[2] \in DOMAIN peers[k].threads
            /\ ui.dropped[k] = 0

\* The threads of client k other than main.
Created(k) == (DOMAIN peers[k].threads) \ {MAIN}

\* C37: a client that made the only thread creation of the run and has read
\* the server's relay of it holds exactly one thread other than main.
C37_OneThreadPerCreation ==
    \A k \in Conns :
        (/\ CaughtUp(k)
         /\ uplink[k] = <<>>
         /\ ui.created = [NoUi.created EXCEPT ![k] = 1])
        => Cardinality(Created(k)) = 1

\* The copies client k holds in its main thread of the texts client a sent.
Copies(k, a) ==
    Cardinality({i \in DOMAIN peers[k].threads[MAIN].messages :
                   LET m == peers[k].threads[MAIN].messages[i]
                   IN m.sender_id = UserId(a) /\ m.content \in UiTexts})

\* Nothing is on its way: the server has read every write, and every client
\* has read what was sent to it or has left its receive loop.
Settled ==
    \A k \in Conns :
        /\ uplink[k] = <<>>
        /\ downlink[k] = <<>> \/ ~peers[k].connected

\* C38: once nothing is on its way, every client holds in its main thread
\* exactly one copy of each text a client sent in main while all three
\* clients were joined.
C38_OneCopyEach ==
    Settled => \A k \in Conns, a \in Conns : Copies(k, a) = ui.sent[a]

StopNext ==
    \/ Tick
    \/ Start
    \/ \E image_data \in SweepImageData, sender_id \in Users :
          AddImageMessage(image_data, sender_id, MAIN, 0)
    \/ ImageSweepLoop
    \/ ImageSweepScan
    \/ \E image_id \in image_sweeper.expired : ImageDeleteTest(image_id)
    \/ ImageDeleteDel
    \/ ImageSweepSleep
    \/ StopFlags
    \/ StopSnapshot
    \/ \E image_id \in stopper.keys : StopDeleteTest(image_id)
    \/ StopDeleteDel
    \/ StopReturn

\* One ChatManager whose stop() runs beside the image cleanup worker and
\* beside callers that store images.
SpecStop == Init /\ [][StopNext]_vars

\* C39: a stop() call that ended returned normally and left the image
\* registry empty, and an image cleanup loop that tests its flag after
\* stop() cleared it exits.
C39_StopLeavesNoImage ==
    /\ stopper.pc \in {"returned", "raised"} =>
          /\ stopper.pc = "returned"
          /\ stopper.left = {}
    /\ (image_sweeper.pc = "done") => ~image_running

====
